---- MODULE Spec2Model ----
(***************************************************************************)
(* A model of the VAERS signal-detection backend: the in-memory TTL cache  *)
(* (backend/services/cache.py), the signals endpoint's use of it and the   *)
(* cohort resolver (backend/api/signals.py).                               *)
(*                                                                         *)
(* Time is the integer clock `now` (what _now() returns); a Tick may fall  *)
(* between any two steps.  Every step of a cache operation that reads the  *)
(* clock is a step of its own, so the clock may advance inside a call.     *)
(***************************************************************************)
EXTENDS Integers, Sequences, FiniteSets, TLC

\* ------------------------------------------------------------------ bounds
NumThreads == 2
NumKeys == 2
MaxVal == 2
MaxTtl == 1
MaxTime == 2

\* Scaled program parameters (seconds become clock ticks).
default_ttl == 2
max_items == 1

\* Python's None as a cache value / return value; real values are 1..MaxVal.
None == 0
\* ttl_seconds=None (use the default TTL).
NoTtl == -1

Threads == 1..NumThreads
Keys == 1..NumKeys
Values == 1..MaxVal
AnyValues == {None} \cup Values
TtlArgs == {NoTtl} \cup (0..MaxTtl)
\* get_or_set is called with the default or a positive TTL.
GosTtlArgs == {NoTtl} \cup (1..MaxTtl)
NoKey == 0
NoThread == 0

VARIABLES
  now,            \* the clock read by _now()
  enabled,        \* TTLCache.enabled
  store,          \* TTLCache._store: entries in dict (insertion) order
  lock,           \* owner of TTLCache._lock, or NoThread
  key_locks_lock, \* owner of TTLCache._key_locks_lock, or NoThread
  key_locks,      \* TTLCache._key_locks: key -> owner of that key's lock
  th,             \* per thread: the call in progress and its locals
  prev,           \* the call a sequential caller made just before this one
  objA, objB,     \* stable_hash: two mappings with the same content
  digestA, digestB, \* stable_hash: their digests, once computed
  db,             \* the report store: vaers_data, vaers_vax, vaers_symptoms
  q,              \* _get_base_ids: the parameters of the call in progress
  cpc,            \* _get_base_ids: position of the call
  base_ids_set,   \* _get_base_ids: the local of that name
  cohort,         \* _get_base_ids: the list returned
  prev_cohort,    \* what the previous call with the same parameters returned
  calls,          \* how many calls with these parameters have been started
  N,              \* signals.compute: N = len(base_ids)
  queries,        \* the collections the request in progress has queried, in order
  metrics,        \* _compute_metrics: the arguments of a call and its outcome
  req,            \* signals: the request's thresholds, sort key, limit and cc
  spc,            \* signals.compute: position in the pipeline
  vax_marg,       \* signals.compute: (vax_type, vax_manu) -> vax_total
  sym_marg,       \* signals.compute: symptom term -> sym_total
  pair_docs,      \* signals.compute: the documents _build_pairs returned
  rows,           \* signals.compute: the row list
  params          \* a request parameter: its name, raw text and parsed outcome

cacheVars == <<now, enabled, store, lock, key_locks_lock, key_locks, th>>
hashVars == <<objA, objB, digestA, digestB>>
parseVars == <<params>>
cohortVars == <<db, q, cpc, base_ids_set, cohort, prev_cohort, calls, N, queries>>
pipeVars == <<metrics, req, spc, vax_marg, sym_marg, pair_docs, rows>>
pipeVarsButSpc == <<metrics, req, vax_marg, sym_marg, pair_docs, rows>>
nonCache == <<prev, hashVars, parseVars, cohortVars, pipeVars>>
vars == <<cacheVars, nonCache>>

\* ------------------------------------------------------- the store (a dict)
CacheEntry(k, e, v) == [key |-> k, expires_at |-> e, value |-> v]
NoEntry == [key |-> NoKey, expires_at |-> 0, value |-> None]

StoreKeys(s) == {s[i].key : i \in 1..Len(s)}

\* dict.get(key): the entry, or NoEntry for Python's None.
StoreGet(s, k) ==
  IF k \in StoreKeys(s)
    THEN s[CHOOSE i \in 1..Len(s) : s[i].key = k]
    ELSE NoEntry

\* dict.pop(key, None)
StorePop(s, k) == SelectSeq(s, LAMBDA e : e.key # k)

\* dict[key] = entry: an existing key keeps its position, a new one is appended.
StorePut(s, ent) ==
  IF ent.key \in StoreKeys(s)
    THEN [i \in 1..Len(s) |-> IF s[i].key = ent.key THEN ent ELSE s[i]]
    ELSE Append(s, ent)

\* (mutant) the expiry test written with < : an entry expiring exactly at t stays.
EvictExpiredStrict(s, t) == SelectSeq(s, LAMBDA e : ~(e.expires_at < t))

\* _evict_expired_locked with t = _now()
EvictExpired(s, t) == SelectSeq(s, LAMBDA e : ~(e.expires_at <= t))

\* sorted(items, key=expires_at): Python's sort is stable.
RECURSIVE InsertSorted(_, _)
InsertSorted(sorted, e) ==
  IF sorted = <<>> THEN <<e>>
  ELSE IF Head(sorted).expires_at <= e.expires_at
         THEN <<Head(sorted)>> \o InsertSorted(Tail(sorted), e)
         ELSE <<e>> \o sorted

RECURSIVE SortedByExpiry(_)
SortedByExpiry(s) ==
  IF s = <<>> THEN <<>>
  ELSE InsertSorted(SortedByExpiry(SubSeq(s, 1, Len(s) - 1)), s[Len(s)])

\* `over` of _evict_overflow_locked: how many entries it removes.
Overflow(s) == IF Len(s) <= max_items THEN 0 ELSE Len(s) - max_items

\* (mutant) overflow eviction in insertion order, without the sort by expiry.
OverflowVictimsFifo(s) == {s[i].key : i \in 1..Overflow(s)}

\* The keys _evict_overflow_locked pops: the first `over` of the sorted items.
OverflowVictims(s) ==
  LET items == SortedByExpiry(s)
  IN  {items[i].key : i \in 1..Overflow(s)}

EvictOverflow(s) == SelectSeq(s, LAMBDA e : e.key \notin OverflowVictims(s))

\* ------------------------------------------------------------ thread state
IdleThread ==
  [pc |-> "idle", op |-> "none", key |-> NoKey, val |-> None, ttl |-> NoTtl,
   ret |-> None, ent |-> NoEntry, called_at |-> 0, computed |-> FALSE,
   raised |-> FALSE, wrote |-> FALSE, over |-> 0, fresh |-> FALSE]

EmptyLocks == [k \in {} |-> NoThread]

CacheInit ==
  /\ now = 0
  /\ enabled \in BOOLEAN
  /\ store = <<>>
  /\ lock = NoThread
  /\ key_locks_lock = NoThread
  /\ key_locks = EmptyLocks
  /\ th = [t \in Threads |-> IdleThread]

\* The parts of the state a specification does not use stay as they are here.
NoPrev == [valid |-> FALSE, key |-> NoKey, ttl |-> NoTtl, ret |-> None, expires_at |-> 0]
SeqOff == prev = NoPrev
ParseOff == params = [pc |-> "off"]
HashOff == objA = <<>> /\ objB = <<>> /\ digestA = <<>> /\ digestB = <<>>
NoParams == [cap |-> 0]
CohortOff ==
  /\ db = <<>> /\ q = NoParams /\ cpc = "off" /\ base_ids_set = {}
  /\ cohort = <<>> /\ prev_cohort = <<>> /\ calls = 0 /\ N = 0 /\ queries = <<>>

NoCall == [pc |-> "off"]
PipeOff ==
  /\ metrics = NoCall /\ req = NoCall /\ spc = "off"
  /\ vax_marg = <<>> /\ sym_marg = <<>> /\ pair_docs = <<>> /\ rows = <<>>

\* A fresh cache; nothing else in use.
Init == CacheInit /\ SeqOff /\ ParseOff /\ HashOff /\ CohortOff /\ PipeOff

\* time.time() moves on between any two steps.
Tick ==
  /\ now < MaxTime
  /\ now' = now + 1
  /\ UNCHANGED <<enabled, store, lock, key_locks_lock, key_locks, th, nonCache>>

At(t, p) == th[t].pc = p
Goto(t, r) == th' = [th EXCEPT ![t] = r]
NewCall(p, o, k, v, l) ==
  [IdleThread EXCEPT !.pc = p, !.op = o, !.key = k, !.val = v, !.ttl = l]

\* ------------------------------------------------------------ TTLCache.get
\* Lines 124-127: the enabled test, `with self._lock`, _evict_expired_locked.
GetEnter(t, from, to, disabled) ==
  /\ At(t, from)
  /\ IF ~enabled
       THEN /\ Goto(t, [th[t] EXCEPT !.pc = disabled, !.ret = None])
            /\ UNCHANGED <<store, lock>>
       ELSE /\ lock = NoThread
            /\ lock' = t
            /\ store' = EvictExpired(store, now)
            /\ Goto(t, [th[t] EXCEPT !.pc = to])
  /\ UNCHANGED <<now, enabled, key_locks_lock, nonCache>>

\* Lines 128-137: what get returns, and the store it leaves.
GetResult(s, k, t) ==
  LET ent == StoreGet(s, k)
  IN  IF ent = NoEntry THEN [ret |-> None, ent |-> NoEntry, store |-> s]
      ELSE IF ent.expires_at <= t
             THEN [ret |-> None, ent |-> ent, store |-> StorePop(s, k)]
             ELSE [ret |-> ent.value, ent |-> ent, store |-> s]

\* (mutant) a live entry counts as a hit whatever value it holds.
IsHitOnEntry(r) == r.ent # NoEntry /\ r.store # <<>> /\ r.ent \in {r.store[i] : i \in 1..Len(r.store)}

\* Lines 184 and 192: `existing is not None`, the test get_or_set makes on
\* what get returned.
IsHit(r) == r.ret # None

\* Lines 128-137 and the release of self._lock; hit/miss are the caller's
\* next positions for a non-None and a None result.
GetLookup(t, from, hit, miss) ==
  /\ At(t, from)
  /\ lock = t
  /\ LET r == GetResult(store, th[t].key, now)
     IN  /\ store' = r.store
         /\ Goto(t, [th[t] EXCEPT !.pc = IF IsHit(r) THEN hit ELSE miss,
                                  !.ret = r.ret, !.ent = r.ent])
  /\ lock' = NoThread
  /\ UNCHANGED <<now, enabled, key_locks_lock, nonCache>>

\* ------------------------------------------------------------ TTLCache.set
\* Line 142
Ttl(l) == IF l = NoTtl THEN default_ttl ELSE l

\* Lines 140-144; res is what the caller of set() then returns.
SetEnter(t, from, to, disabled, res) ==
  /\ At(t, from)
  /\ IF ~enabled
       THEN /\ Goto(t, [th[t] EXCEPT !.pc = disabled, !.ret = res])
            /\ UNCHANGED <<store, lock>>
       ELSE /\ lock = NoThread
            /\ lock' = t
            /\ store' = EvictExpired(store, now)
            /\ Goto(t, [th[t] EXCEPT !.pc = to])
  /\ UNCHANGED <<now, enabled, key_locks_lock, nonCache>>

\* Line 145: the entry set() builds.
NewEntry(k, v, l, t) == CacheEntry(k, t + Ttl(l), v)

\* Lines 145-146; with `note` the thread remembers the entry it built.
SetInsert(t, from, to, note) ==
  /\ At(t, from)
  /\ lock = t
  /\ store' = StorePut(store, NewEntry(th[t].key, th[t].val, th[t].ttl, now))
  /\ Goto(t, [th[t] EXCEPT
                !.pc = to, !.wrote = TRUE,
                !.ent = IF note THEN NewEntry(th[t].key, th[t].val, th[t].ttl, now)
                                ELSE @])
  /\ UNCHANGED <<now, enabled, lock, key_locks_lock, nonCache>>

\* Line 147 and the release of self._lock.
SetOverflow(t, from, to, res) ==
  /\ At(t, from)
  /\ lock = t
  /\ store' = EvictOverflow(store)
  /\ Goto(t, [th[t] EXCEPT !.pc = to, !.over = Overflow(store), !.ret = res])
  /\ lock' = NoThread
  /\ UNCHANGED <<now, enabled, key_locks_lock, nonCache>>

\* ------------------------------------------------- calls of get and of set
CallGet(t) ==
  /\ At(t, "idle")
  /\ \E k \in Keys :
       Goto(t, [NewCall("get_enter", "get", k, None, NoTtl) EXCEPT !.called_at = now])
  /\ UNCHANGED <<now, enabled, store, lock, key_locks_lock, key_locks, nonCache>>

Get_Enter(t) == GetEnter(t, "get_enter", "get_lookup", "ret") /\ UNCHANGED key_locks
Get_Lookup(t) == GetLookup(t, "get_lookup", "ret", "ret") /\ UNCHANGED key_locks

CallSet(t) ==
  /\ At(t, "idle")
  /\ \E k \in Keys, v \in AnyValues, l \in TtlArgs :
       Goto(t, NewCall("set_enter", "set", k, v, l))
  /\ UNCHANGED <<now, enabled, store, lock, key_locks_lock, key_locks, nonCache>>

Set_Enter(t) ==
  SetEnter(t, "set_enter", "set_insert", "ret", None) /\ UNCHANGED key_locks
Set_Insert(t) ==
  SetInsert(t, "set_insert", "set_overflow", FALSE) /\ UNCHANGED key_locks
Set_Overflow(t) ==
  SetOverflow(t, "set_overflow", "ret", None) /\ UNCHANGED key_locks

\* The call returns to its caller (or its exception reaches the caller).
Return(t) ==
  /\ th[t].pc \in {"ret", "exc"}
  /\ Goto(t, IdleThread)
  /\ UNCHANGED <<now, enabled, store, lock, key_locks_lock, key_locks, nonCache>>

\* ------------------------------------------- size, prune, clear (one step)
\* Lines 153-158
CallSize(t) ==
  /\ At(t, "idle")
  /\ IF ~enabled
       THEN /\ Goto(t, [NewCall("ret", "size", NoKey, None, NoTtl) EXCEPT !.ret = 0])
            /\ UNCHANGED store
       ELSE /\ lock = NoThread
            /\ store' = EvictExpired(store, now)
            /\ Goto(t, [NewCall("ret", "size", NoKey, None, NoTtl)
                          EXCEPT !.ret = Len(EvictExpired(store, now))])
  /\ UNCHANGED <<now, enabled, lock, key_locks_lock, key_locks, nonCache>>

\* Lines 112-121
CallPrune(t) ==
  /\ At(t, "idle")
  /\ IF ~enabled
       THEN UNCHANGED store
       ELSE /\ lock = NoThread
            /\ store' = EvictOverflow(EvictExpired(store, now))
  /\ Goto(t, NewCall("ret", "prune", NoKey, None, NoTtl))
  /\ UNCHANGED <<now, enabled, lock, key_locks_lock, key_locks, nonCache>>

\* Lines 149-151
CallClear(t) ==
  /\ At(t, "idle")
  /\ lock = NoThread
  /\ store' = <<>>
  /\ Goto(t, NewCall("ret", "clear", NoKey, None, NoTtl))
  /\ UNCHANGED <<now, enabled, lock, key_locks_lock, key_locks, nonCache>>

Next ==
  \/ Tick
  \/ \E t \in Threads :
       \/ CallGet(t) \/ Get_Enter(t) \/ Get_Lookup(t)
       \/ CallSet(t) \/ Set_Enter(t) \/ Set_Insert(t) \/ Set_Overflow(t)
       \/ CallSize(t) \/ CallPrune(t) \/ CallClear(t)
       \/ Return(t)

\* Callers of get, set, size, prune and clear on one cache.
Spec == Init /\ [][Next]_vars

\* ----------------------------------------------------- TTLCache.get_or_set
CallGetOrSet(t) ==
  /\ At(t, "idle")
  /\ \E k \in Keys, l \in GosTtlArgs :
       Goto(t, [NewCall("gos_get1_enter", "get_or_set", k, None, l)
                  EXCEPT !.fresh = (k \notin StoreKeys(store))])
  /\ UNCHANGED <<now, enabled, store, lock, key_locks_lock, key_locks, nonCache>>

\* Lines 183-185: existing = self.get(key)
Gos_Get1Enter(t) ==
  GetEnter(t, "gos_get1_enter", "gos_get1_lookup", "gos_keylock_acquire")
    /\ UNCHANGED key_locks
Gos_Get1Lookup(t) ==
  GetLookup(t, "gos_get1_lookup", "ret", "gos_keylock_acquire")
    /\ UNCHANGED key_locks

\* Line 164: with self._key_locks_lock
Gos_KeyLockAcquire(t) ==
  /\ At(t, "gos_keylock_acquire")
  /\ key_locks_lock = NoThread
  /\ key_locks_lock' = t
  /\ Goto(t, [th[t] EXCEPT !.pc = "gos_keylock_body"])
  /\ UNCHANGED <<now, enabled, store, lock, key_locks, nonCache>>

\* Lines 165-168: the table of per-key locks after _get_key_lock(key).
WithKeyLock(locks, k) ==
  IF k \in DOMAIN locks THEN locks
  ELSE [x \in DOMAIN locks \cup {k} |-> IF x = k THEN NoThread ELSE locks[x]]

\* Lines 165-169 and the release of self._key_locks_lock.
Gos_KeyLockBody(t) ==
  /\ At(t, "gos_keylock_body")
  /\ key_locks_lock = t
  /\ key_locks' = WithKeyLock(key_locks, th[t].key)
  /\ key_locks_lock' = NoThread
  /\ Goto(t, [th[t] EXCEPT !.pc = "gos_lock"])
  /\ UNCHANGED <<now, enabled, store, lock, nonCache>>

\* (mutant) one lock shared by every key: taking it takes them all.
LockAllKeys(locks, k, t) == [x \in DOMAIN locks |-> t]

\* Line 189: thread t takes the lock of key k, and no other.
LockKey(locks, k, t) == [locks EXCEPT ![k] = t]

\* Line 189: with lk (blocks while another thread holds the key's lock).
Gos_Lock(t) ==
  /\ At(t, "gos_lock")
  /\ key_locks[th[t].key] = NoThread
  /\ key_locks' = LockKey(key_locks, th[t].key, t)
  /\ Goto(t, [th[t] EXCEPT !.pc = "gos_get2_enter"])
  /\ UNCHANGED <<now, enabled, store, lock, key_locks_lock, nonCache>>

\* (mutant) the key's lock is kept on leaving the block.
UnlockedNever(locks, t) == locks

\* Leaving the `with lk` block releases the key's lock.
Unlocked(locks, t) == [x \in DOMAIN locks |-> IF locks[x] = t THEN NoThread ELSE locks[x]]

\* Lines 191-193: existing2 = self.get(key); a hit returns and releases lk.
Gos_Get2Enter(t) ==
  GetEnter(t, "gos_get2_enter", "gos_get2_lookup", "gos_compute")
    /\ UNCHANGED key_locks
Gos_Get2Lookup(t) ==
  /\ GetLookup(t, "gos_get2_lookup", "ret", "gos_compute")
  /\ key_locks' = IF th'[t].pc = "ret" THEN Unlocked(key_locks, t) ELSE key_locks

\* (mutant) a failed compute is cached as None (set in a finally block).
AfterComputeCachesError(r, v, ok) ==
  IF ok THEN [r EXCEPT !.pc = "gos_set_enter", !.val = v, !.computed = TRUE]
        ELSE [r EXCEPT !.pc = "gos_set_enter", !.val = None, !.computed = TRUE,
                       !.raised = TRUE]

\* What a compute callback may return: None or a result.
MaxResult == 1
Results == {None} \cup (1..MaxResult)

\* Line 195: value = compute().  compute returns any value (None included)
\* or raises; the thread record after it.
AfterCompute(r, v, ok) ==
  IF ok THEN [r EXCEPT !.pc = "gos_set_enter", !.val = v, !.computed = TRUE]
        ELSE [r EXCEPT !.pc = "exc", !.computed = TRUE, !.raised = TRUE]

\* (mutant) an exception leaves the block without releasing the key's lock.
LocksAfterComputeKept(locks, t, ok) == locks

\* Lines 189-195: an exception raised by compute() leaves the `with lk`
\* block, which releases the key's lock.
LocksAfterCompute(locks, t, ok) == IF ok THEN locks ELSE Unlocked(locks, t)

Gos_Compute(t) ==
  /\ At(t, "gos_compute")
  /\ \E v \in Results, ok \in BOOLEAN :
       /\ Goto(t, AfterCompute(th[t], v, ok))
       /\ key_locks' = LocksAfterCompute(key_locks, t, ok)
  /\ UNCHANGED <<now, enabled, store, lock, key_locks_lock, nonCache>>

\* Lines 196-197: self.set(key, value, ttl_seconds); return value.
Gos_SetEnter(t) ==
  /\ SetEnter(t, "gos_set_enter", "gos_set_insert", "ret", th[t].val)
  /\ key_locks' = IF th'[t].pc = "ret" THEN Unlocked(key_locks, t) ELSE key_locks
Gos_SetInsert(t) ==
  SetInsert(t, "gos_set_insert", "gos_set_overflow", FALSE) /\ UNCHANGED key_locks
Gos_SetOverflow(t) ==
  /\ SetOverflow(t, "gos_set_overflow", "ret", th[t].val)
  /\ key_locks' = Unlocked(key_locks, t)

NextGos ==
  \/ Tick
  \/ \E t \in Threads :
       \/ CallGetOrSet(t)
       \/ Gos_Get1Enter(t) \/ Gos_Get1Lookup(t)
       \/ Gos_KeyLockAcquire(t) \/ Gos_KeyLockBody(t) \/ Gos_Lock(t)
       \/ Gos_Get2Enter(t) \/ Gos_Get2Lookup(t)
       \/ Gos_Compute(t)
       \/ Gos_SetEnter(t) \/ Gos_SetInsert(t) \/ Gos_SetOverflow(t)
       \/ Return(t)

\* Callers of get_or_set on one cache.
SpecGos == Init /\ [][NextGos]_vars

\* ======================================================== claims: the cache
InCall(t, o) == th[t].op = o /\ th[t].pc # "idle"

\* Two get_or_set calls in progress at once for one key, each made while the
\* key had no entry.
ConcurrentFresh(t, u) ==
  /\ t # u
  /\ InCall(t, "get_or_set") /\ InCall(u, "get_or_set")
  /\ th[t].key = th[u].key
  /\ th[t].fresh /\ th[u].fresh

\* C1 (as claimed): on an enabled cache, of the concurrent get_or_set callers
\* of one uncached key (no compute raising) at most one executes compute, and
\* callers that have both returned hold the same value.
C1_SingleFlight ==
  enabled =>
    \A t, u \in Threads :
      (ConcurrentFresh(t, u) /\ ~th[t].raised /\ ~th[u].raised) =>
        /\ ~(th[t].computed /\ th[u].computed)
        /\ (th[t].pc = "ret" /\ th[u].pc = "ret" => th[t].ret = th[u].ret)

\* C3: a get_or_set whose compute raised ends with the exception at its
\* caller, has inserted nothing and evicted nothing for overflow; and every
\* step of a get_or_set that has not reached set()'s insert leaves the store
\* as it was except for entries that had expired.
OnlyExpiredRemoved(s1, s2, t) ==
  s2 = SelectSeq(s1, LAMBDA e : e \in {s2[i] : i \in 1..Len(s2)})
    /\ \A i \in 1..Len(s1) :
         s1[i] \notin {s2[j] : j \in 1..Len(s2)} => s1[i].expires_at <= t
C3_Raised(t) == th[t].raised => th[t].pc = "exc" /\ ~th[t].wrote /\ th[t].over = 0
C3_Step(t) ==
  (th[t].op = "get_or_set" /\ th'[t] # th[t] /\ ~th'[t].wrote)
    => OnlyExpiredRemoved(store, store', now)
C3_ErrorsNeverCached ==
  /\ [](\A t \in Threads : C3_Raised(t))
  /\ [][\A t \in Threads : C3_Step(t)]_vars
\* A compute has raised while the store holds another call's entry.
C3_Witness ==
  \E t \in Threads : th[t].raised /\ th[t].pc = "exc" /\ store # <<>>

\* C4: a thread executing compute for a key holds neither the index lock nor
\* the lock table's lock nor another key's lock, so no caller for a different
\* key waits for it.
WaitsFor(u) ==
  IF th[u].pc \in {"gos_get1_enter", "gos_get2_enter", "gos_set_enter"} /\ enabled
    THEN lock
  ELSE IF th[u].pc = "gos_keylock_acquire" THEN key_locks_lock
  ELSE IF th[u].pc = "gos_lock" THEN key_locks[th[u].key]
  ELSE NoThread
C4_DistinctKeysParallel ==
  \A t \in Threads :
    th[t].pc = "gos_compute" =>
      /\ lock # t
      /\ key_locks_lock # t
      /\ \A k \in DOMAIN key_locks : key_locks[k] = t => k = th[t].key
      /\ \A u \in Threads :
           (InCall(u, "get_or_set") /\ th[u].key # th[t].key) => WaitsFor(u) # t
\* Two computes for different keys are in progress at the same time.
C4_Witness ==
  \E t, u \in Threads :
    /\ th[t].pc = "gos_compute" /\ th[u].pc = "gos_compute"
    /\ th[t].key # th[u].key

Entries(s) == {s[i] : i \in 1..Len(s)}
EntriesFor(s, k) == {i \in 1..Len(s) : s[i].key = k}
\* s2 is s1 with some entries taken out (order kept, nothing added or changed).
Pruned(s1, s2) == s2 = SelectSeq(s1, LAMBDA e : e \in Entries(s2))

\* C5: a get that returns (a step of thread t) returns None or the value of
\* the one entry the store holds for the key, which had not expired when get
\* was called; and no entry that had expired when get was called is left.
GetReturns(t) == th[t].op = "get" /\ th[t].pc # "ret" /\ th'[t].pc = "ret"
C5_Step(t) ==
  GetReturns(t) =>
    /\ \/ th'[t].ret = None
       \/ /\ Cardinality(EntriesFor(store, th[t].key)) = 1
          /\ \E i \in EntriesFor(store, th[t].key) :
               /\ store[i].value = th'[t].ret
               /\ ~(store[i].expires_at <= th[t].called_at)
               /\ ~(store[i].expires_at <= now)
    /\ \A e \in Entries(store') : ~(e.expires_at <= th[t].called_at)
C5_GetNeverStale == [][\A t \in Threads : C5_Step(t)]_vars
\* A get has returned a stored value after the clock moved on during the call.
C5_Witness ==
  \E t \in Threads :
    /\ th[t].op = "get" /\ th[t].pc = "ret"
    /\ th[t].ret # None /\ th[t].called_at < now

\* C6: set's insert stores the value under the key with expiry now + ttl
\* (the default TTL for ttl None); when set's overflow eviction is done the
\* store holds at most max_items entries, nothing but evicted entries is gone
\* and every evicted entry expires no later than every entry that remains.
C6_Insert(t) ==
  (th[t].op = "set" /\ th[t].pc = "set_insert" /\ th'[t].pc # "set_insert") =>
    /\ Cardinality(EntriesFor(store', th[t].key)) = 1
    /\ \E i \in EntriesFor(store', th[t].key) :
         /\ store'[i].value = th[t].val
         /\ store'[i].expires_at =
              now + (IF th[t].ttl = NoTtl THEN default_ttl ELSE th[t].ttl)
C6_Evict(t) ==
  (th[t].op = "set" /\ th[t].pc = "set_overflow" /\ th'[t].pc # "set_overflow") =>
    /\ Len(store') <= max_items
    /\ Pruned(store, store')
    /\ \A e \in Entries(store) \ Entries(store') :
         \A r \in Entries(store') : e.expires_at <= r.expires_at
C6_SetBounded == [][\A t \in Threads : C6_Insert(t) /\ C6_Evict(t)]_vars
\* A set has returned after evicting an entry for overflow.
C6_Witness ==
  \E t \in Threads :
    /\ th[t].op = "set" /\ th[t].pc = "ret" /\ th[t].over > 0
    /\ Len(store) = max_items

\* ============================================================= stable_hash
\* JSON values: a string, or a mapping kept as its items in insertion order
\* (a Python dict).  Keys are the strings of HKeys.
Atom(x) == [kind |-> "atom", atom |-> x, items |-> <<>>]
Dict(items) == [kind |-> "dict", atom |-> "", items |-> items]

\* The order of Python's string comparison on the keys used here.
KeyRank(k) == CASE k = "a" -> 1 [] k = "b" -> 2 [] k = "c" -> 3

\* (mutant) json.dumps without sort_keys: items stay in insertion order.
SortItemsOff(items) == items

\* sort_keys=True: the items of one mapping in ascending key order.
RECURSIVE SortItems(_)
SortItems(items) ==
  IF items = <<>> THEN <<>>
  ELSE LET least == CHOOSE i \in 1..Len(items) :
                      \A j \in 1..Len(items) : KeyRank(items[i].k) <= KeyRank(items[j].k)
       IN  <<items[least]>>
             \o SortItems(SubSeq(items, 1, least - 1) \o SubSeq(items, least + 1, Len(items)))

\* json.dumps(obj, sort_keys=True, separators=(",", ":")) as a token list;
\* sorting applies at every level of nesting.
RECURSIVE JsonDumps(_)
RECURSIVE DumpItems(_)
DumpItems(items) ==
  IF items = <<>> THEN <<>>
  ELSE <<items[1].k, ":">> \o JsonDumps(items[1].v)
         \o (IF Len(items) > 1 THEN <<",">> \o DumpItems(Tail(items)) ELSE <<>>)
JsonDumps(o) ==
  IF o.kind = "atom" THEN <<o.atom>>
  ELSE <<"{">> \o DumpItems(SortItems(o.items)) \o <<"}">>

\* sha256(payload).hexdigest(): taken to be collision-free, so the digest
\* stands for the payload it was computed from.
Sha256Hex(payload) == <<"sha256">> \o payload

\* Lines 22-23
stable_hash(obj) == Sha256Hex(JsonDumps(obj))

HashMaxLen == 2
HKeys == {"a", "b", "c"}
InnerKeys == {"a", "b"}
HAtoms == {Atom("1"), Atom("2")}
\* Item lists of at most n items with distinct keys.
ItemSeqs(K, V, n) ==
  {s \in UNION {[1..m -> [k : K, v : V]] : m \in 0..n} :
     \A i, j \in 1..Len(s) : i # j => s[i].k # s[j].k}
InnerDicts == {Dict(s) : s \in ItemSeqs(InnerKeys, HAtoms, Cardinality(InnerKeys))}
HashInputs == {Dict(s) : s \in ItemSeqs(HKeys, HAtoms \cup InnerDicts, HashMaxLen)}

SwapAt(s, i) ==
  [j \in 1..Len(s) |-> IF j = i THEN s[i + 1] ELSE IF j = i + 1 THEN s[i] ELSE s[j]]

HashInit ==
  /\ objA \in HashInputs
  /\ objB = objA
  /\ digestA = <<>> /\ digestB = <<>>
  /\ CacheInit /\ SeqOff /\ ParseOff /\ CohortOff /\ PipeOff

\* The same mapping built in another insertion order: two neighbouring items
\* swapped, at the top level or inside a nested mapping.
HashReorder ==
  /\ digestA = <<>>
  /\ \/ \E i \in 1..(Len(objB.items) - 1) : objB' = Dict(SwapAt(objB.items, i))
     \/ \E i \in 1..Len(objB.items) :
          /\ objB.items[i].v.kind = "dict"
          /\ \E j \in 1..(Len(objB.items[i].v.items) - 1) :
               objB' = Dict([objB.items EXCEPT
                               ![i].v = Dict(SwapAt(objB.items[i].v.items, j))])
  /\ UNCHANGED <<objA, digestA, digestB, cacheVars, prev, cohortVars, pipeVars, parseVars>>

HashBoth ==
  /\ digestA = <<>>
  /\ digestA' = stable_hash(objA)
  /\ digestB' = stable_hash(objB)
  /\ UNCHANGED <<objA, objB, cacheVars, prev, cohortVars, pipeVars, parseVars>>

NextHash == HashReorder \/ HashBoth
SpecHash == HashInit /\ [][NextHash]_vars

\* C8: two mappings holding the same key/value pairs at every level, built
\* in different insertion orders, have the same stable_hash digest.
C8_HashOrderInvariant == digestA # <<>> => digestA = digestB
\* Digests were computed for two orderings that differ at the top level and
\* inside a nested mapping.
C8_Witness ==
  /\ digestA # <<>>
  /\ Len(objA.items) = 2
  /\ objA.items[1].k = objB.items[2].k
  /\ \E i \in 1..2 :
       /\ objA.items[i].v.kind = "dict"
       /\ Len(objA.items[i].v.items) = 2
       /\ objA.items[i].v \notin {objB.items[j].v : j \in 1..2}

\* =========================================================== _get_base_ids
NumReports == 2
MaxCap == 2
\* signals(): base_id_cap, the hard safety limit (50000), scaled to the store.
HardCap == 1

Reports == 1..NumReports
\* A missing filter value / a date that is missing or does not parse.
NoStr == "None"
NoNum == -1

\* vaers_data: per report whether it satisfies the report-level predicate
\* (data_match) and its onset day difference (NoNum: a date is missing).
DataDocs == [dm : BOOLEAN, days : {NoNum, 1}]
VaxDocs == {[VAERS_ID |-> r, VAX_TYPE |-> "A", VAX_MANU |-> "M"] : r \in Reports}
SymDocs == {[VAERS_ID |-> r, SYMPTOMS |-> <<"S">>] : r \in Reports}
Stores == [vaers_data : [Reports -> DataDocs], vaers_vax : SUBSET VaxDocs,
           vaers_symptoms : SUBSET SymDocs]

JoinFilters ==
  {[vax_type |-> NoStr, vax_manu |-> NoStr], [vax_type |-> "A", vax_manu |-> NoStr],
   [vax_type |-> NoStr, vax_manu |-> "M"]}
OnsetRanges ==
  {[onset_min |-> NoNum, onset_max |-> NoNum], [onset_min |-> 1, onset_max |-> NoNum],
   [onset_min |-> NoNum, onset_max |-> 0]}
Params(caps) ==
  {[vax_type |-> j.vax_type, vax_manu |-> j.vax_manu, symptom_term |-> st,
    onset_min |-> o.onset_min, onset_max |-> o.onset_max, cap |-> c] :
     j \in JoinFilters, st \in {NoStr, "S"}, o \in OnsetRanges, c \in caps}

\* base_ids_set = None
NoIds == {0}

\* A query sent to the store: the collection and the function sending it.
Query(c, f) == [coll |-> c, by |-> f]

\* Lines 104-114: the identifiers of the vaccine records matching vax_match.
VaxIds(d, p) ==
  {rec.VAERS_ID : rec \in
     {x \in d.vaers_vax :
        /\ (p.vax_type # NoStr => x.VAX_TYPE = p.vax_type)
        /\ (p.vax_manu # NoStr => x.VAX_MANU = p.vax_manu)}}

\* Lines 117-128: the identifiers of the symptom records holding the term in
\* one of their slots.
SymIds(d, p) ==
  {rec.VAERS_ID : rec \in
     {x \in d.vaers_symptoms :
        \E i \in 1..Len(x.SYMPTOMS) : x.SYMPTOMS[i] = p.symptom_term}}

\* Lines 136-138: final_match, the report predicate and the $in restriction.
FinalMatch(d, ids) ==
  {r \in DOMAIN d.vaers_data : d.vaers_data[r].dm /\ (ids # NoIds => r \in ids)}

\* (mutant) a null calc_days passes the range filter.
InOnsetRangeNullPasses(days, p) ==
  \/ days = NoNum
  \/ /\ (p.onset_min # NoNum => days >= p.onset_min)
     /\ (p.onset_max # NoNum => days <= p.onset_max)

\* Lines 173-176: {"calc_days": range_match}; a null calc_days matches no bound.
InOnsetRange(days, p) ==
  /\ days # NoNum
  /\ (p.onset_min # NoNum => days >= p.onset_min)
  /\ (p.onset_max # NoNum => days <= p.onset_max)

\* The documents the final query selects: strategy A (line 144) or
\* strategy B (lines 151-176).
Selected(d, ids, p) ==
  IF p.onset_min = NoNum /\ p.onset_max = NoNum
    THEN FinalMatch(d, ids)
    ELSE {r \in FinalMatch(d, ids) : InOnsetRange(d.vaers_data[r].days, p)}

\* The orders in which the store may hand back a set of documents: the code
\* asks for no sort, so any order is possible.
Orders(S) ==
  {o \in [1..Cardinality(S) -> S] : \A i, j \in 1..Cardinality(S) : i # j => o[i] # o[j]}

\* (mutant) the cap is not applied.
LimitOff(docs, cap) == docs

\* Lines 145-146 and 179-180: .limit(cap) / $limit when cap > 0.
Limit(docs, cap) ==
  IF cap > 0 /\ Len(docs) > cap THEN SubSeq(docs, 1, cap) ELSE docs

CohortInit ==
  /\ db \in Stores
  /\ q = NoParams /\ cpc = "idle" /\ base_ids_set = NoIds
  /\ cohort = <<>> /\ prev_cohort = <<>> /\ calls = 0 /\ N = 0 /\ queries = <<>>
  /\ CacheInit /\ SeqOff /\ ParseOff /\ HashOff /\ PipeOff

\* A call of _get_base_ids with any parameters.
GbiCall ==
  /\ cpc = "idle"
  /\ \E p \in Params(0..MaxCap) : q' = p @@ [by |-> "caller"]
  /\ cpc' = "vax" /\ calls' = 1
  /\ UNCHANGED <<db, base_ids_set, cohort, prev_cohort, N, queries, cacheVars, prev, hashVars, parseVars, pipeVars>>

\* Lines 347-353: signals.compute calls it with the hard cap.
SignalsCall ==
  /\ cpc = "idle"
  /\ \E p \in Params({HardCap}) : q' = p @@ [by |-> "signals"]
  /\ cpc' = "vax" /\ calls' = 1
  /\ UNCHANGED <<db, base_ids_set, cohort, prev_cohort, N, queries, cacheVars, prev, hashVars, parseVars, pipeVars>>

\* Lines 101-114
GbiVax ==
  /\ cpc = "vax"
  /\ base_ids_set' = IF q.vax_type # NoStr \/ q.vax_manu # NoStr
                       THEN VaxIds(db, q) ELSE NoIds
  /\ queries' = IF q.vax_type # NoStr \/ q.vax_manu # NoStr
                  THEN Append(queries, Query("vaers_vax", "_get_base_ids")) ELSE queries
  /\ cpc' = "sym"
  /\ UNCHANGED <<db, q, cohort, prev_cohort, calls, N, cacheVars, prev, hashVars, parseVars, pipeVars>>

\* Lines 117-133
GbiSym ==
  /\ cpc = "sym"
  /\ base_ids_set' = IF q.symptom_term # NoStr
                       THEN IF base_ids_set # NoIds
                              THEN base_ids_set \cap SymIds(db, q)
                              ELSE SymIds(db, q)
                       ELSE base_ids_set
  /\ queries' = IF q.symptom_term # NoStr
                  THEN Append(queries, Query("vaers_symptoms", "_get_base_ids")) ELSE queries
  /\ cpc' = "final"
  /\ UNCHANGED <<db, q, cohort, prev_cohort, calls, N, cacheVars, prev, hashVars, parseVars, pipeVars>>

\* Lines 136-186: the final query, its limit and the list returned.
GbiFinal ==
  /\ cpc = "final"
  /\ \E o \in Orders(Selected(db, base_ids_set, q)) : cohort' = Limit(o, q.cap)
  /\ queries' = Append(queries, Query("vaers_data", "_get_base_ids"))
  /\ cpc' = "done"
  /\ UNCHANGED <<db, q, base_ids_set, prev_cohort, calls, N, cacheVars, prev, hashVars, parseVars, pipeVars>>

\* Line 354: N = len(base_ids)
SignalsN ==
  /\ cpc = "done" /\ q.by = "signals"
  /\ N' = Len(cohort)
  /\ cpc' = "counted"
  /\ UNCHANGED <<db, q, base_ids_set, cohort, prev_cohort, calls, queries, cacheVars, prev, hashVars, parseVars, pipeVars>>

\* The same call again: identical parameters, unchanged store.
GbiRepeat ==
  /\ cpc = "done" /\ q.by = "caller" /\ calls = 1
  /\ prev_cohort' = cohort
  /\ calls' = 2
  /\ cpc' = "vax"
  /\ queries' = <<>>
  /\ UNCHANGED <<db, q, base_ids_set, cohort, N, cacheVars, prev, hashVars, parseVars, pipeVars>>

NextCohort ==
  GbiCall \/ SignalsCall \/ GbiVax \/ GbiSym \/ GbiFinal \/ SignalsN \/ GbiRepeat
SpecCohort == CohortInit /\ [][NextCohort]_vars

\* ======================================================= claims: the cohort
Range(f) == {f[i] : i \in 1..Len(f)}
Min(a, b) == IF a <= b THEN a ELSE b

\* The reports that satisfy the report predicate and every constraint given.
Matching(d, p) ==
  {r \in Reports :
     /\ d.vaers_data[r].dm
     /\ (p.vax_type # NoStr \/ p.vax_manu # NoStr) =>
          \E x \in d.vaers_vax :
            /\ x.VAERS_ID = r
            /\ (p.vax_type # NoStr => x.VAX_TYPE = p.vax_type)
            /\ (p.vax_manu # NoStr => x.VAX_MANU = p.vax_manu)
     /\ p.symptom_term # NoStr =>
          \E x \in d.vaers_symptoms :
            x.VAERS_ID = r /\ p.symptom_term \in Range(x.SYMPTOMS)
     /\ (p.onset_min # NoNum \/ p.onset_max # NoNum) =>
          /\ d.vaers_data[r].days # NoNum
          /\ (p.onset_min # NoNum => d.vaers_data[r].days >= p.onset_min)
          /\ (p.onset_max # NoNum => d.vaers_data[r].days <= p.onset_max)}

Returned == cpc \in {"done", "counted"}

\* C9 (as claimed): with a cap smaller than the number of matching reports,
\* a second call with identical parameters on the unchanged store returns
\* the same identifiers as the first.
C9_CapDeterministic ==
  (cpc = "done" /\ calls = 2 /\ q.cap > 0 /\ q.cap < Cardinality(Matching(db, q)))
    => Range(cohort) = Range(prev_cohort)

SignalsTtl == 2

\* A request arrives; its canonical parameters hash to cache key k.
CallSignals(t) ==
  /\ At(t, "idle")
  /\ \E k \in Keys :
       Goto(t, [NewCall("sig_get_enter", "signals", k, None, SignalsTtl)
                  EXCEPT !.fresh = (k \notin StoreKeys(store))])
  /\ UNCHANGED <<now, enabled, store, lock, key_locks_lock, key_locks, nonCache>>

\* Lines 341-343: cached = CACHE.get(cache_key); a hit is returned.
Sig_GetEnter(t) ==
  GetEnter(t, "sig_get_enter", "sig_get_lookup", "sig_compute") /\ UNCHANGED key_locks
Sig_GetLookup(t) ==
  GetLookup(t, "sig_get_lookup", "ret", "sig_compute") /\ UNCHANGED key_locks

\* Line 436: result = compute(); the payload is a dict (never None), or a
\* stage of the pipeline raises.
Sig_Compute(t) ==
  /\ At(t, "sig_compute")
  /\ \E v \in Values, ok \in BOOLEAN :
       Goto(t, IF ok THEN [th[t] EXCEPT !.pc = "sig_set_enter", !.val = v,
                                        !.computed = TRUE]
                     ELSE [th[t] EXCEPT !.pc = "exc", !.computed = TRUE,
                                        !.raised = TRUE])
  /\ UNCHANGED <<now, enabled, store, lock, key_locks_lock, key_locks, nonCache>>

\* Lines 437-438: CACHE.set(cache_key, result, ttl_seconds=45); return.
Sig_SetEnter(t) ==
  SetEnter(t, "sig_set_enter", "sig_set_insert", "ret", th[t].val)
    /\ UNCHANGED key_locks
Sig_SetInsert(t) ==
  SetInsert(t, "sig_set_insert", "sig_set_overflow", FALSE) /\ UNCHANGED key_locks
Sig_SetOverflow(t) ==
  SetOverflow(t, "sig_set_overflow", "ret", th[t].val) /\ UNCHANGED key_locks

NextSignals ==
  \/ Tick
  \/ \E t \in Threads :
       \/ CallSignals(t)
       \/ Sig_GetEnter(t) \/ Sig_GetLookup(t)
       \/ Sig_Compute(t)
       \/ Sig_SetEnter(t) \/ Sig_SetInsert(t) \/ Sig_SetOverflow(t)
       \/ Return(t)

\* Concurrent requests to the signals endpoint sharing the global cache.
SpecSignals == Init /\ [][NextSignals]_vars

\* C2 (as claimed): on an enabled cache, of two signals requests in progress
\* at once with the same cache key, each arrived while the key had no entry
\* and neither failing, at most one runs the compute pipeline.
C2_SignalsSingleFlight ==
  enabled =>
    \A t, u \in Threads :
      ( /\ t # u
        /\ InCall(t, "signals") /\ InCall(u, "signals")
        /\ th[t].key = th[u].key
        /\ th[t].fresh /\ th[u].fresh
        /\ ~th[t].raised /\ ~th[u].raised )
      => ~(th[t].computed /\ th[u].computed)

\* ============================================ get_or_set, one call after another
\* Lines 196 with 145: as Gos_SetInsert; the caller remembers the entry stored.
Seq_SetInsert(t) ==
  SetInsert(t, "gos_set_insert", "gos_set_overflow", TRUE) /\ UNCHANGED key_locks

\* The call is over; what it returned, and until when the entry it returned
\* from (found or stored) lives, is remembered for the next call.
ReturnSeq(t) ==
  /\ th[t].pc \in {"ret", "exc"}
  /\ prev' = [valid |-> th[t].pc = "ret" /\ th[t].ent # NoEntry,
              key |-> th[t].key, ttl |-> th[t].ttl, ret |-> th[t].ret,
              expires_at |-> th[t].ent.expires_at]
  /\ Goto(t, IdleThread)
  /\ UNCHANGED <<now, enabled, store, lock, key_locks_lock, key_locks,
                 hashVars, parseVars, cohortVars, pipeVars>>

\* The one thread making the calls.
Caller == CHOOSE t \in Threads : \A u \in Threads : t <= u

NextTwice ==
  \/ Tick
  \/ \E t \in {Caller} :
       \/ CallGetOrSet(t)
       \/ Gos_Get1Enter(t) \/ Gos_Get1Lookup(t)
       \/ Gos_KeyLockAcquire(t) \/ Gos_KeyLockBody(t) \/ Gos_Lock(t)
       \/ Gos_Get2Enter(t) \/ Gos_Get2Lookup(t)
       \/ Gos_Compute(t)
       \/ Gos_SetEnter(t) \/ Seq_SetInsert(t) \/ Gos_SetOverflow(t)
       \/ ReturnSeq(t)

\* One caller of get_or_set, call after call.
SpecTwice == Init /\ [][NextTwice]_vars

\* The call that has just returned was made with the key and ttl of the call
\* before it, and returned before the entry of that call expired.
SecondInWindow ==
  /\ th[Caller].pc = "ret"
  /\ prev.valid
  /\ prev.key = th[Caller].key /\ prev.ttl = th[Caller].ttl
  /\ now < prev.expires_at

\* C7 (as claimed): on an enabled cache, the second of two successive
\* get_or_set calls within one TTL window returns what the first returned and
\* does not execute compute.
C7_Idempotent ==
  (enabled /\ SecondInWindow) =>
     /\ th[Caller].ret = prev.ret
     /\ ~th[Caller].computed

\* ========================================================= _compute_metrics
MaxN == 4
MaxCount == 3

\* The cc argument, a float: 0.0, NaN, a positive 1/inv, or +infinity.
\* 0.5 is the default (signals.py:327); 1e-6 is a small positive constant.
CcZero == [kind |-> "zero", inv |-> 0]
CcNaN == [kind |-> "nan", inv |-> 0]
CcHalf == [kind |-> "pos", inv |-> 2]
CcMicro == [kind |-> "pos", inv |-> 1000000]
CcInf == [kind |-> "inf", inv |-> 0]
CcValues == {CcZero, CcNaN, CcHalf, CcMicro, CcInf}

\* cc > 0 (false for NaN)
CcPositive(cc) == cc.kind \in {"pos", "inf"}

Max0(x) == IF x > 0 THEN x ELSE 0

\* Lines 28-31: the pre-correction cells.
Cells0(n, a, vax_total, sym_total) ==
  LET b0 == Max0(vax_total - a)
      c0 == Max0(sym_total - a)
  IN  [a |-> a, b |-> b0, c |-> c0, d |-> Max0(n - a - b0 - c0)]

HasZero(x) == x.a = 0 \/ x.b = 0 \/ x.c = 0 \/ x.d = 0

\* (mutant) the correction is applied only when exactly one cell is zero.
UseCcExactlyOne(x, cc) ==
  /\ Cardinality({f \in {"a", "b", "c", "d"} : x[f] = 0}) = 1
  /\ CcPositive(cc)

\* Line 37: use_cc
UseCc(x, cc) == HasZero(x) /\ CcPositive(cc)

\* (mutant) the correction is added to the zero cells only.
Cells1ZeroOnly(x, cc) ==
  IF ~UseCc(x, cc)
    THEN [inf |-> FALSE, scale |-> 1, a |-> x.a, b |-> x.b, c |-> x.c, d |-> x.d]
  ELSE IF cc.kind = "inf"
    THEN [inf |-> TRUE, scale |-> 1, a |-> 1, b |-> 1, c |-> 1, d |-> 1]
  ELSE [inf |-> FALSE, scale |-> cc.inv,
        a |-> x.a * cc.inv + (IF x.a = 0 THEN 1 ELSE 0),
        b |-> x.b * cc.inv + (IF x.b = 0 THEN 1 ELSE 0),
        c |-> x.c * cc.inv + (IF x.c = 0 THEN 1 ELSE 0),
        d |-> x.d * cc.inv + (IF x.d = 0 THEN 1 ELSE 0)]

\* Line 38: the cells the ratios are computed from, as whole numbers of
\* 1/scale (scale = 1/cc when the correction is applied); inf: all four
\* cells are +infinity.
Cells1(x, cc) ==
  IF ~UseCc(x, cc)
    THEN [inf |-> FALSE, scale |-> 1, a |-> x.a, b |-> x.b, c |-> x.c, d |-> x.d]
  ELSE IF cc.kind = "inf"
    THEN [inf |-> TRUE, scale |-> 1, a |-> 1, b |-> 1, c |-> 1, d |-> 1]
  ELSE [inf |-> FALSE, scale |-> cc.inv,
        a |-> x.a * cc.inv + 1, b |-> x.b * cc.inv + 1,
        c |-> x.c * cc.inv + 1, d |-> x.d * cc.inv + 1]

\* Float results: None, NaN, or the ratio num/den.
FNone == [k |-> "none", num |-> 0, den |-> 1]
FNaN == [k |-> "nan", num |-> 0, den |-> 1]
Ratio(n, d) == [k |-> "num", num |-> n, den |-> d]

AllPositive(y) == y.a > 0 /\ y.b > 0 /\ y.c > 0 /\ y.d > 0

\* (mutant) PRR without its guards' c > 0 requirement turned into a null:
\* any zero cell makes the metric null.
PrrNullOnAnyZero(y) ==
  IF y.inf THEN FNaN
  ELSE IF AllPositive(y) THEN Ratio(y.a * (y.c + y.d), (y.a + y.b) * y.c)
  ELSE FNone

\* Line 41: the guard of prr (true of infinite cells).
PrrGuard(y) == (y.a + y.b) > 0 /\ (y.c + y.d) > 0 /\ y.c > 0

\* Lines 40-42: prr; inf/inf is NaN.
Prr(y) ==
  IF y.inf THEN FNaN
  ELSE IF PrrGuard(y) THEN Ratio(y.a * (y.c + y.d), (y.a + y.b) * y.c)
  ELSE FNone

\* (mutant) ROR guarded like PRR.
RorGuardedLikePrr(y) ==
  IF y.inf THEN FNaN
  ELSE IF (y.a + y.b) > 0 /\ (y.c + y.d) > 0 /\ y.c > 0 /\ y.b > 0
    THEN Ratio(y.a * y.d, y.b * y.c)
  ELSE FNone

\* Lines 46-48: ror
Ror(y) ==
  IF y.inf THEN FNaN
  ELSE IF AllPositive(y) THEN Ratio(y.a * y.d, y.b * y.c)
  ELSE FNone

\* Confidence intervals: None, [nan, nan], or
\* [exp(log(point) - z*se), exp(log(point) + z*se)] with se >= 0.
CNone == [k |-> "none", point |-> FNone]
CNaN == [k |-> "nan", point |-> FNaN]
Ci(p) == [k |-> "ci", point |-> p]

\* Whole-number bounds for the float computations of lines 54-68.
RECURSIVE IsqrtIn(_, _, _)
IsqrtIn(x, lo, hi) ==
  IF lo >= hi THEN lo
  ELSE LET mid == (lo + hi + 1) \div 2
       IN  IF mid * mid <= x THEN IsqrtIn(x, mid, hi) ELSE IsqrtIn(x, lo, mid - 1)
\* floor(sqrt(x)) for 0 <= x < 2^30
Isqrt(x) == IsqrtIn(x, 0, 32767)
\* the least k with 2^k >= x, for 1 <= x <= 2^30
Log2Ceil(x) == CHOOSE k \in 0..30 : 2^k >= x /\ (k = 0 \/ 2^(k - 1) < x)

MinCell(y) ==
  CHOOSE m \in {y.a, y.b, y.c, y.d} : \A o \in {y.a, y.b, y.c, y.d} : m <= o
\* 100 * an upper bound of ln((a1+b1+c1+d1) / min cell); ln 2 < 0.70
LnSpread(y) == 70 * Log2Ceil((y.a + y.b + y.c + y.d) \div MinCell(y) + 1)

\* Lines 57 and 65: bounds [low, high] of the number under the square root.
RadPrr(y) ==
  << Max0((y.scale \div y.a) - (y.scale \div (y.a + y.b)) - 1
           + (y.scale \div y.c) - (y.scale \div (y.c + y.d)) - 1),
     (y.scale \div y.a) + (y.scale \div y.c) + 2 >>
RadRor(y) ==
  << (y.scale \div y.a) + (y.scale \div y.b) + (y.scale \div y.c) + (y.scale \div y.d),
     (y.scale \div y.a) + (y.scale \div y.b) + (y.scale \div y.c) + (y.scale \div y.d) + 4 >>

\* Lines 58 and 66: math.exp raises OverflowError when its argument
\* log(point) + 1.96 * se exceeds ln(max float) = 709.78...; with
\* |log(point)| <= ln100 / 100 and se*se within rad this is certain, excluded,
\* or (between the bounds) not decided here.
ExpOverflows(ln100, rad) ==
  IF 196 * Isqrt(rad[1]) - ln100 > 70979 THEN {TRUE}
  ELSE IF 196 * (Isqrt(rad[2]) + 1) + ln100 < 70978 THEN {FALSE}
  ELSE BOOLEAN

\* What a call leaves: the dict returned, or the exception that left it.
Raised(e) == [raised |-> e]
Returned4(x, early, applied, prr, prr_ci, ror, ror_ci) ==
  [raised |-> "no", early |-> early, a |-> x.a, b |-> x.b, c |-> x.c, d |-> x.d,
   cc_applied |-> applied, prr |-> prr, prr_ci |-> prr_ci, ror |-> ror,
   ror_ci |-> ror_ci]

\* Lines 50-68: the two confidence intervals; OverflowError is not among the
\* exceptions the try blocks catch.
WithIntervals(x, y, applied) ==
  LET prrTried == PrrGuard(y) /\ AllPositive(y)
      rorTried == AllPositive(y)
  IN  { IF po \/ ro THEN Raised("OverflowError")
        ELSE Returned4(x, FALSE, applied, Prr(y),
                       IF prrTried THEN Ci(Prr(y)) ELSE CNone,
                       Ror(y),
                       IF rorTried THEN Ci(Ror(y)) ELSE CNone) :
        po \in (IF prrTried THEN ExpOverflows(LnSpread(y), RadPrr(y)) ELSE {FALSE}),
        ro \in (IF rorTried THEN ExpOverflows(2 * LnSpread(y), RadRor(y)) ELSE {FALSE}) }

\* Lines 16-80: the outcomes of _compute_metrics(N, a, vax_total, sym_total, cc).
ComputeMetricsOutcomes(n, a, vax_total, sym_total, cc) ==
  LET x == Cells0(n, a, vax_total, sym_total)
      y == Cells1(x, cc)
  IN  IF n <= 0 \/ x.a < 0 \/ x.b < 0 \/ x.c < 0 \/ x.d < 0
        THEN {Returned4(x, TRUE, FALSE, FNone, CNone, FNone, CNone)}
      ELSE IF y.inf
        THEN {Returned4(x, FALSE, TRUE, Prr(y), CNaN, Ror(y), CNaN)}
      ELSE WithIntervals(x, y, UseCc(x, cc))

MetricsArgs ==
  [pc : {"call"}, N : 0..MaxN, a : 0..MaxCount, vax_total : 0..MaxCount,
   sym_total : 0..MaxCount, cc : CcValues]

MetricsInit ==
  /\ metrics \in MetricsArgs
  /\ req = NoCall /\ spc = "off"
  /\ vax_marg = <<>> /\ sym_marg = <<>> /\ pair_docs = <<>> /\ rows = <<>>
  /\ CacheInit /\ SeqOff /\ ParseOff /\ HashOff /\ CohortOff

\* One call of _compute_metrics, from its arguments to its return or raise.
ComputeMetrics ==
  /\ metrics.pc = "call"
  /\ \E r \in ComputeMetricsOutcomes(metrics.N, metrics.a, metrics.vax_total,
                                     metrics.sym_total, metrics.cc) :
       metrics' = [pc |-> IF r.raised = "no" THEN "ret" ELSE "exc",
                   N |-> metrics.N, a |-> metrics.a,
                   vax_total |-> metrics.vax_total, sym_total |-> metrics.sym_total,
                   cc |-> metrics.cc, res |-> r]
  /\ UNCHANGED <<req, spc, vax_marg, sym_marg, pair_docs, rows,
                 cacheVars, prev, hashVars, parseVars, cohortVars>>

NextMetrics == ComputeMetrics
SpecMetrics == MetricsInit /\ [][NextMetrics]_vars

\* ================================================= claims: _compute_metrics
MetricsReturned == metrics.pc = "ret"
\* The number of pre-correction cells of the returned dict that are zero.
ZeroCells ==
  Cardinality({f \in {"a", "b", "c", "d"} : metrics.res[f] = 0})
CcGiven == metrics.cc.kind \in {"pos", "inf"}
SameRatio(v, n, d) == v.k = "num" /\ v.num * d = n * v.den

\* C13: for N > 0 a returned call has cc_applied exactly when cc > 0 and
\* some pre-correction cell is 0; the ratios it returns are those of the
\* cells with cc added to all four when applied, of the raw cells otherwise.
C13_CcIffAnyZero ==
  (MetricsReturned /\ metrics.N > 0) =>
    LET r == metrics.res
        k == IF r.cc_applied THEN metrics.cc.inv ELSE 1
        e == IF r.cc_applied THEN 1 ELSE 0
        A == r.a * k + e   B == r.b * k + e
        C == r.c * k + e   D == r.d * k + e
    IN  /\ r.cc_applied <=> (CcGiven /\ ZeroCells > 0)
        /\ (r.prr.k = "num") => SameRatio(r.prr, A * (C + D), (A + B) * C)
        /\ (r.ror.k = "num") => SameRatio(r.ror, A * D, B * C)
\* A call returned corrected ratios: cc = 1/2, cells a = 1, b = 0, c > 0.
C13_Witness ==
  /\ MetricsReturned /\ metrics.res.cc_applied
  /\ metrics.res.a = 1 /\ metrics.res.b = 0 /\ metrics.res.c > 0
  /\ metrics.res.prr.k = "num" /\ metrics.res.ror.k = "num"

C15_ZeroCellNullMetrics ==
  (MetricsReturned /\ metrics.cc = CcZero /\ ZeroCells > 0) =>
    (metrics.res.prr.k = "none" /\ metrics.res.ror.k = "none")
\* C15 (amended): with cc = 0 and a zero pre-correction cell, ror and both
\* confidence intervals are None, and for N > 0 prr is None exactly when
\* c = 0 or a + b = 0 (it is computed when only a, b or d is zero).
C15_ZeroCellNullRor ==
  (MetricsReturned /\ metrics.cc = CcZero /\ ZeroCells > 0) =>
    LET r == metrics.res
    IN  /\ r.ror.k = "none" /\ r.prr_ci.k = "none" /\ r.ror_ci.k = "none"
        /\ metrics.N > 0 => ((r.prr.k = "none") <=> (r.c = 0 \/ r.a + r.b = 0))
        /\ metrics.N <= 0 => r.prr.k = "none"
\* With cc = 0 and b = 0 a prr was computed.
C15_Witness ==
  /\ MetricsReturned /\ metrics.cc = CcZero
  /\ metrics.res.b = 0 /\ metrics.res.prr.k = "num"

\* C16: a non-null prr has post-correction cells with a+b > 0, c+d > 0 and
\* c > 0; a non-null ror has all four post-correction cells > 0; for N <= 0
\* prr, ror and both intervals are None.
C16_Guards ==
  MetricsReturned =>
    LET r == metrics.res
        pos(f) == r[f] > 0 \/ r.cc_applied
    IN  /\ r.prr.k # "none" => (pos("a") \/ pos("b")) /\ (pos("c") \/ pos("d")) /\ pos("c")
        /\ r.ror.k # "none" => pos("a") /\ pos("b") /\ pos("c") /\ pos("d")
        /\ metrics.N <= 0 =>
             /\ r.prr.k = "none" /\ r.ror.k = "none"
             /\ r.prr_ci.k = "none" /\ r.ror_ci.k = "none"
\* A prr was returned without a ror: a raw cell other than c was zero.
C16_Witness ==
  /\ MetricsReturned /\ ~metrics.res.cc_applied
  /\ metrics.res.prr.k = "num" /\ metrics.res.ror.k = "none"

\* C17 (as claimed): a returned prr or ror that is not None is a number >= 0,
\* and a returned interval has lower <= point <= upper (it is
\* [exp(log p - z*se), exp(log p + z*se)] about a point that is a number).
C17_NonNegativeOrdered ==
  MetricsReturned =>
    LET r == metrics.res
        number(v) == v.k = "num" /\ v.num >= 0 /\ v.den > 0
    IN  /\ r.prr.k # "none" => number(r.prr)
        /\ r.ror.k # "none" => number(r.ror)
        /\ r.prr_ci.k # "none" => r.prr_ci.k = "ci" /\ number(r.prr_ci.point)
        /\ r.ror_ci.k # "none" => r.ror_ci.k = "ci" /\ number(r.ror_ci.point)

\* C18 (as claimed): _compute_metrics never raises.
C18_NeverRaises == metrics.pc # "exc"

\* ========================================================== signals.compute
NumPipeReports == 5
PipeReports == 1..NumPipeReports

\* What a report brings: its vaccine records <<VAX_TYPE, lot>> and its symptom
\* records <<term, row>> (the five slots of a symptom record scaled to one;
\* NoStr: the slot holds null, as in a document inserted as it was exported).
Profile(vax, sym) == [vax |-> vax, sym |-> sym]
Profiles ==
  << Profile({<<"A", 1>>}, {<<"S", 1>>}),
     Profile({<<"A", 1>>}, {<<"T", 1>>}),
     Profile({<<"B", 1>>}, {<<"S", 1>>}),
     Profile({<<"B", 1>>}, {<<NoStr, 1>>}),
     Profile({<<"A", 1>>, <<"A", 2>>}, {<<"S", 1>>}),
     Profile({<<"A", 1>>}, {<<"S", 1>>, <<"S", 2>>}) >>

\* The store in which report r has the profile f[r]: every report satisfies
\* the report predicate; vaers_vax and vaers_symptoms hold several records of
\* one report (their VAERS_ID indexes are not unique).
PipeStore(f) ==
  [vaers_data |-> [r \in PipeReports |-> [dm |-> TRUE, days |-> 1]],
   vaers_vax |-> UNION {{[VAERS_ID |-> r, VAX_TYPE |-> x[1], VAX_MANU |-> "M",
                          VAX_LOT |-> x[2]] : x \in Profiles[f[r]].vax} :
                        r \in PipeReports},
   vaers_symptoms |-> UNION {{[VAERS_ID |-> r, SYMPTOMS |-> <<x[1]>>,
                               ROW |-> x[2]] : x \in Profiles[f[r]].sym} :
                             r \in PipeReports}]
\* Reports are interchangeable: one store per multiset of profiles.
PipeStores ==
  {PipeStore(f) : f \in {g \in [PipeReports -> 1..Len(Profiles)] :
                           \A i, j \in PipeReports : i < j => g[i] <= g[j]}}

\* x or ""
OrEmpty(v) == IF v = NoStr THEN "" ELSE v

\* Lines 195-206 and 245-256: the vaccine records joined to the cohort, one
\* document per record, that pass the vax_type/vax_manu matches.
JoinedVax(d, ids, jf) ==
  {x \in d.vaers_vax :
     /\ x.VAERS_ID \in ids
     /\ x.VAX_TYPE # NoStr
     /\ (jf.vax_type # NoStr => x.VAX_TYPE = jf.vax_type)
     /\ (jf.vax_manu # NoStr => x.VAX_MANU = jf.vax_manu)}

\* Lines 220-228 and 258-267: the slots <<record, i>> of the symptom records
\* joined to the cohort, one document per slot. In the match of lines 225 and
\* 263 the key "$ne" is written twice and the dict keeps the second, so the
\* match is pt != "" and an unfilled slot (null) passes.
JoinedSlots(d, ids, jf) ==
  {s \in UNION {{<<x, i>> : i \in 1..Len(x.SYMPTOMS)} : x \in d.vaers_symptoms} :
     /\ s[1].VAERS_ID \in ids
     /\ s[1].SYMPTOMS[s[2]] # ""
     /\ (jf.symptom_term # NoStr => s[1].SYMPTOMS[s[2]] = jf.symptom_term)}
Pt(s) == s[1].SYMPTOMS[s[2]]

\* Lines 189-212: (vax_type, vax_manu) -> the number of joined vaccine records.
build_vax_marginals(d, ids, jf) ==
  LET J == JoinedVax(d, ids, jf)
      K == {<<OrEmpty(x.VAX_TYPE), OrEmpty(x.VAX_MANU)>> : x \in J}
  IN  [k \in K |->
         Cardinality({x \in J : <<OrEmpty(x.VAX_TYPE), OrEmpty(x.VAX_MANU)>> = k})]

\* Lines 215-235: term -> the number of joined slots holding it; the key of
\* the unfilled slots is None (NoStr).
build_sym_marginals(d, ids, jf) ==
  LET J == JoinedSlots(d, ids, jf)
  IN  [k \in {Pt(s) : s \in J} |-> Cardinality({s \in J : Pt(s) = k})]

\* Lines 238-272: one document per (vax_type, vax_manu, pt), a = the number of
\* (vaccine record, symptom slot) combinations of one report with that key.
build_pairs(d, ids, jf) ==
  LET J == {c \in JoinedVax(d, ids, jf) \X JoinedSlots(d, ids, jf) :
              c[1].VAERS_ID = c[2][1].VAERS_ID}
      IdOf(c) == [vax_type |-> c[1].VAX_TYPE, vax_manu |-> c[1].VAX_MANU, pt |-> Pt(c[2])]
  IN  {[id |-> k, a |-> Cardinality({c \in J : IdOf(c) = k})] : k \in {IdOf(c) : c \in J}}

\* dict.get(k, 0)
MargGet(m, k) == IF k \in DOMAIN m THEN m[k] ELSE 0

\* Lines 323-331: the request's parameters as signals() normalises them; the
\* limit's clamp [10, 200] is scaled to [LimitMin, LimitMax].
LimitMin == 1
LimitMax == 2
Max2(a, b) == IF a >= b THEN a ELSE b
\* min_count = max(1, .), min_vax_total and min_sym_total as given: no
\* threshold above the floor, or one of the three raised.
Thresholds ==
  {[min_count |-> Max2(1, t[1]), min_vax_total |-> t[2], min_sym_total |-> t[3]] :
     t \in {<<0, 0, 0>>, <<2, 0, 0>>, <<1, 2, 0>>, <<1, 0, 2>>}}
Limits == {Max2(LimitMin, Min(LimitMax, x)) : x \in 0..(LimitMax + 1)}
SortKeys == {"prr", "ror", "a"}
PipeCcValues == {CcZero, CcHalf, CcMicro, CcInf}
PipeFilters ==
  {[vax_type |-> NoStr, vax_manu |-> NoStr, symptom_term |-> NoStr],
   [vax_type |-> "B", vax_manu |-> NoStr, symptom_term |-> NoStr]}
\* Line 333, scaled so that the cap leaves the store whole.
base_id_cap == NumPipeReports
Requests ==
  {[pc |-> "req", vax_type |-> jf.vax_type, vax_manu |-> jf.vax_manu,
    symptom_term |-> jf.symptom_term, onset_min |-> NoNum, onset_max |-> NoNum,
    cap |-> base_id_cap, min_count |-> t.min_count,
    min_vax_total |-> t.min_vax_total, min_sym_total |-> t.min_sym_total,
    limit |-> l, cc |-> cc, sort_by |-> sb] :
     jf \in PipeFilters, t \in Thresholds, l \in Limits, cc \in PipeCcValues,
     sb \in SortKeys}

\* Lines 101-133 of _get_base_ids: base_ids_set after the two prefilters.
PrefilterIds(d, p) ==
  LET v == IF p.vax_type # NoStr \/ p.vax_manu # NoStr THEN VaxIds(d, p) ELSE NoIds
  IN  IF p.symptom_term # NoStr
        THEN IF v # NoIds THEN v \cap SymIds(d, p) ELSE SymIds(d, p)
        ELSE v

\* Lines 136-186 of _get_base_ids: the identifiers the capped query may
\* return, as sets (any cap of the selected documents, in no promised order).
BaseIdSets(d, p) ==
  LET S == Selected(d, PrefilterIds(d, p), p)
  IN  IF p.cap > 0 /\ Cardinality(S) > p.cap
        THEN {T \in SUBSET S : Cardinality(T) = p.cap}
        ELSE {S}

\* Lines 103-186: the queries _get_base_ids sends, in order.
GbiQueries(p) ==
  (IF p.vax_type # NoStr \/ p.vax_manu # NoStr
     THEN <<Query("vaers_vax", "_get_base_ids")>> ELSE <<>>)
    \o (IF p.symptom_term # NoStr
          THEN <<Query("vaers_symptoms", "_get_base_ids")>> ELSE <<>>)
    \o <<Query("vaers_data", "_get_base_ids")>>

\* Lines 366-368: the aggregations of the three tabulations, in order.
TabQueries ==
  <<Query("vaers_data", "_build_vax_marginals"),
    Query("vaers_data", "_build_sym_marginals"),
    Query("vaers_data", "_build_pairs")>>

\* (mutant) the empty cohort is not told apart.
EmptyCohortNever(n) == FALSE

\* Line 356: if N == 0
EmptyCohort(n) == n = 0

\* (mutant) the symptom-marginal threshold is not tested.
PassesNoSymTotal(doc, vm, sm, p) ==
  /\ doc.a >= p.min_count
  /\ MargGet(vm, <<OrEmpty(doc.id.vax_type), OrEmpty(doc.id.vax_manu)>>) >= p.min_vax_total

\* Lines 379-388: the tests a pair document passes to become a row.
Passes(doc, vm, sm, p) ==
  /\ doc.a >= p.min_count
  /\ MargGet(vm, <<OrEmpty(doc.id.vax_type), OrEmpty(doc.id.vax_manu)>>) >= p.min_vax_total
  /\ MargGet(sm, OrEmpty(doc.id.pt)) >= p.min_sym_total

\* Lines 381-407: the row of a pair document and its metrics.
Row(doc, vm, sm, r) ==
  [vax_type |-> OrEmpty(doc.id.vax_type), vax_manu |-> OrEmpty(doc.id.vax_manu),
   symptom |-> OrEmpty(doc.id.pt), a |-> r.a, b |-> r.b, c |-> r.c, d |-> r.d,
   vax_total |-> MargGet(vm, <<OrEmpty(doc.id.vax_type), OrEmpty(doc.id.vax_manu)>>),
   sym_total |-> MargGet(sm, OrEmpty(doc.id.pt)),
   cc_applied |-> r.cc_applied, prr |-> r.prr, prr_ci |-> r.prr_ci,
   ror |-> r.ror, ror_ci |-> r.ror_ci]

\* Lines 375-407: the loop over pair_docs; an exception of _compute_metrics
\* leaves the loop and the request.
RECURSIVE RowLoop(_, _, _, _, _)
RowLoop(docs, vm, sm, p, n) ==
  IF docs = <<>> THEN {[raised |-> "no", rows |-> <<>>]}
  ELSE LET doc == Head(docs)
           rest == RowLoop(Tail(docs), vm, sm, p, n)
       IN  IF ~Passes(doc, vm, sm, p) THEN rest
           ELSE UNION
             { IF r.raised # "no" THEN {[raised |-> r.raised, rows |-> <<>>]}
               ELSE { IF t.raised # "no" THEN t
                      ELSE [raised |-> "no", rows |-> <<Row(doc, vm, sm, r)>> \o t.rows] :
                      t \in rest } :
               r \in ComputeMetricsOutcomes(n, doc.a,
                       MargGet(vm, <<OrEmpty(doc.id.vax_type), OrEmpty(doc.id.vax_manu)>>),
                       MargGet(sm, OrEmpty(doc.id.pt)), p.cc) }

\* Lines 42 and 47: each ratio is the double of three rounded divisions. It
\* is the double nearest the exact ratio, or a neighbour of it: for the cells
\* (a, b, c, d) below, raw cells with cc = 0.5 added, it is the next double
\* up, or the next double down; for the other cells these stores produce it
\* is the nearest.
PrrNextUp ==
  {<<1, 0, 8, 0>>, <<1, 1, 5, 0>>, <<2, 0, 2, 1>>, <<2, 0, 3, 0>>, <<2, 0, 5, 0>>,
   <<4, 0, 3, 0>>}
PrrNextDown ==
  {<<1, 0, 4, 0>>, <<1, 2, 2, 0>>, <<1, 2, 4, 0>>, <<1, 3, 1, 0>>, <<3, 1, 1, 0>>,
   <<3, 1, 2, 0>>, <<5, 0, 1, 0>>, <<5, 0, 2, 0>>}
RorNextUp == {<<2, 1, 2, 0>>, <<2, 1, 3, 0>>, <<2, 1, 4, 0>>, <<3, 1, 0, 1>>}
RorNextDown == {<<1, 0, 3, 1>>, <<1, 2, 0, 2>>}
Ulps(row, cc, up, down) ==
  IF row.cc_applied /\ cc = CcHalf
    THEN IF <<row.a, row.b, row.c, row.d>> \in up THEN 1
         ELSE IF <<row.a, row.b, row.c, row.d>> \in down THEN 0 - 1
         ELSE 0
    ELSE 0

\* A double: the ratio v it is nearest to, moved by ulps doubles.
Double(v, ulps) == [k |-> v.k, num |-> v.num, den |-> v.den, ulps |-> ulps]
\* x or 0.0: None and 0.0 give 0.0; NaN is kept.
OrZero(x) == IF x.k = "none" \/ (x.k = "num" /\ x.num = 0) THEN Double(Ratio(0, 1), 0) ELSE x

\* Lines 409-412: sk(row) = (-value, symptom); the value is kept as it is, the
\* comparison below reverses it.
sk(row, p) ==
  IF p.sort_by = "a" THEN <<Double(Ratio(row.a, 1), 0), row.symptom>>
  ELSE IF p.sort_by = "ror"
    THEN <<OrZero(Double(row.ror, Ulps(row, p.cc, RorNextUp, RorNextDown))), row.symptom>>
  ELSE <<OrZero(Double(row.prr, Ulps(row, p.cc, PrrNextUp, PrrNextDown))), row.symptom>>

\* str < str on the terms of the store
StrRank(s) == CASE s = "" -> 0 [] s = "S" -> 1 [] s = "T" -> 2 [] OTHER -> 3
\* float == float and float < float; false when either is NaN
FloatEq(v, w) ==
  v.k = "num" /\ w.k = "num" /\ v.num * w.den = w.num * v.den /\ v.ulps = w.ulps
FloatLt(v, w) ==
  /\ v.k = "num" /\ w.k = "num"
  /\ \/ v.num * w.den < w.num * v.den
     \/ v.num * w.den = w.num * v.den /\ v.ulps < w.ulps
\* tuple < tuple of two keys (-v, s): the first component that differs decides.
KeyLt(k1, k2) ==
  IF FloatEq(k1[1], k2[1]) THEN StrRank(k1[2]) < StrRank(k2[2])
  ELSE FloatLt(k2[1], k1[1])

\* list.sort(key=sk) as CPython sorts fewer than 64 items: the initial run is
\* found (and reversed if strictly descending), the rest is inserted by
\* binary insertion.
RowLt(r1, r2, p) == KeyLt(sk(r1, p), sk(r2, p))
CountRun(s, p) ==
  IF Len(s) <= 1 THEN Len(s)
  ELSE LET desc == RowLt(s[2], s[1], p)
           Cont(i) == IF desc THEN RowLt(s[i], s[i - 1], p)
                      ELSE ~RowLt(s[i], s[i - 1], p)
       IN  CHOOSE m \in 2..Len(s) :
             /\ \A i \in 3..m : Cont(i)
             /\ (m = Len(s) \/ ~Cont(m + 1))
Reverse(s) == [i \in 1..Len(s) |-> s[Len(s) + 1 - i]]
RECURSIVE BinPos(_, _, _, _, _)
BinPos(s, pivot, l, r, p) ==
  IF l >= r THEN l
  ELSE LET mid == l + (r - l) \div 2
       IN  IF RowLt(pivot, s[mid], p) THEN BinPos(s, pivot, l, mid, p)
           ELSE BinPos(s, pivot, mid + 1, r, p)
RECURSIVE BinarySort(_, _, _)
BinarySort(s, start, p) ==
  IF start > Len(s) THEN s
  ELSE LET pos == BinPos(s, s[start], 1, start, p)
       IN  BinarySort(SubSeq(s, 1, pos - 1) \o <<s[start]>> \o SubSeq(s, pos, start - 1)
                        \o SubSeq(s, start + 1, Len(s)),
                      start + 1, p)
ListSort(s, p) ==
  LET n == CountRun(s, p)
      t == IF n >= 2 /\ RowLt(s[2], s[1], p)
             THEN Reverse(SubSeq(s, 1, n)) \o SubSeq(s, n + 1, Len(s))
             ELSE s
  IN  BinarySort(t, n + 1, p)

\* rows[:limit]
Truncate(s, limit) == SubSeq(s, 1, Min(limit, Len(s)))

PipeInit ==
  /\ db \in PipeStores
  /\ req \in Requests
  /\ spc = "call"
  /\ metrics = NoCall
  /\ vax_marg = <<>> /\ sym_marg = <<>> /\ pair_docs = <<>> /\ rows = <<>>
  /\ q = NoParams /\ cpc = "off" /\ base_ids_set = {}
  /\ cohort = <<>> /\ prev_cohort = <<>> /\ calls = 0 /\ N = 0 /\ queries = <<>>
  /\ CacheInit /\ enabled /\ SeqOff /\ ParseOff /\ HashOff

\* Lines 347-364: the cohort is empty; the explicit empty payload.
SigEmpty ==
  /\ spc = "call"
  /\ \E ids \in BaseIdSets(db, req) :
       /\ EmptyCohort(Cardinality(ids))
       /\ N' = Cardinality(ids)
  /\ queries' = GbiQueries(req)
  /\ spc' = "empty"
  /\ UNCHANGED <<metrics, req, vax_marg, sym_marg, pair_docs, rows>>
  /\ UNCHANGED <<db, q, cpc, base_ids_set, cohort, prev_cohort, calls,
                 cacheVars, prev, hashVars, parseVars>>

\* Lines 347-368: the cohort, N and the three tabulations; the store returns
\* the pair documents in an order of its choosing.
SigTabulate ==
  /\ spc = "call"
  /\ \E ids \in BaseIdSets(db, req) :
       /\ ~EmptyCohort(Cardinality(ids))
       /\ N' = Cardinality(ids)
       /\ vax_marg' = build_vax_marginals(db, ids, req)
       /\ sym_marg' = build_sym_marginals(db, ids, req)
       /\ \E o \in Orders(build_pairs(db, ids, req)) : pair_docs' = o
  /\ queries' = GbiQueries(req) \o TabQueries
  /\ spc' = "tabulated"
  /\ UNCHANGED <<metrics, req, rows>>
  /\ UNCHANGED <<db, q, cpc, base_ids_set, cohort, prev_cohort, calls,
                 cacheVars, prev, hashVars, parseVars>>

\* Lines 375-407: the row loop.
SigRows ==
  /\ spc = "tabulated"
  /\ \E out \in RowLoop(pair_docs, vax_marg, sym_marg, req, N) :
       /\ rows' = out.rows
       /\ spc' = IF out.raised = "no" THEN "rows" ELSE "raised"
  /\ UNCHANGED <<metrics, req, vax_marg, sym_marg, pair_docs>>
  /\ UNCHANGED <<cohortVars, cacheVars, prev, hashVars, parseVars>>

\* Lines 409-415: sort and truncate.
SigRank ==
  /\ spc = "rows"
  /\ rows' = Truncate(ListSort(rows, req), req.limit)
  /\ spc' = "ranked"
  /\ UNCHANGED <<metrics, req, vax_marg, sym_marg, pair_docs>>
  /\ UNCHANGED <<cohortVars, cacheVars, prev, hashVars, parseVars>>

NextPipe == SigEmpty \/ SigTabulate \/ SigRows \/ SigRank
SpecPipe == PipeInit /\ [][NextPipe]_vars

\* --------------------------------------- signals(): the cache around compute
\* Requests with the default ranking and no threshold above the floor.
ServeRequests ==
  {r \in Requests :
     /\ r.sort_by = "prr" /\ r.limit = LimitMax /\ r.cc \in {CcHalf, CcMicro}
     /\ r.min_count = 1 /\ r.min_vax_total = 0 /\ r.min_sym_total = 0}

\* Lines 335-339: the digest of the canonical request; a behaviour serves one
\* request (and repeats it), so one key stands for its digest.
cache_key(r) == CHOOSE k \in Keys : TRUE
\* The result dict compute() returns, as the cache holds it: a value that is
\* not None.
result_dict == CHOOSE v \in Values : TRUE

ServeInit ==
  /\ db \in PipeStores
  /\ req \in ServeRequests
  /\ spc = "start"
  /\ metrics = NoCall
  /\ vax_marg = <<>> /\ sym_marg = <<>> /\ pair_docs = <<>> /\ rows = <<>>
  /\ q = NoParams /\ cpc = "off" /\ base_ids_set = {}
  /\ cohort = <<>> /\ prev_cohort = <<>> /\ calls = 1 /\ N = 0 /\ queries = <<>>
  /\ CacheInit /\ enabled /\ SeqOff /\ ParseOff /\ HashOff

\* Lines 341-343: cached = CACHE.get(cache_key); a hit is returned at once.
SigLookup ==
  /\ spc = "start"
  /\ LET r == GetResult(EvictExpired(store, now), cache_key(req), now)
     IN  /\ store' = r.store
         /\ spc' = IF r.ret # None THEN "hit" ELSE "call"
  /\ UNCHANGED <<now, enabled, lock, key_locks_lock, key_locks, th>>
  /\ UNCHANGED <<pipeVarsButSpc, cohortVars, prev, hashVars, parseVars>>

\* (mutant) the handler catches the failure and caches an empty payload.
AfterRaiseCachesEmpty(s, k, t) == StorePut(s, NewEntry(k, result_dict, SignalsTtl, t))

\* Lines 436-437: compute() raised, so line 437 is not executed: the cache
\* after the exception has left signals().
AfterRaise(s, k, t) == s

\* A store query of _get_base_ids or of a tabulation fails: no handler in
\* compute() or signals() catches it (lines 345-438 hold no try).
SigStoreFails ==
  /\ spc = "call"
  /\ \E ids \in BaseIdSets(db, req) :
       LET qs == GbiQueries(req)
                   \o (IF EmptyCohort(Cardinality(ids)) THEN <<>> ELSE TabQueries)
       IN  \E i \in 1..Len(qs) : queries' = SubSeq(qs, 1, i)
  /\ store' = AfterRaise(store, cache_key(req), now)
  /\ spc' = "failed"
  /\ UNCHANGED <<now, enabled, lock, key_locks_lock, key_locks, th>>
  /\ UNCHANGED <<pipeVarsButSpc, prev, hashVars, parseVars>>
  /\ UNCHANGED <<db, q, cpc, base_ids_set, cohort, prev_cohort, calls, N>>

\* Lines 437-438: CACHE.set(cache_key, result, ttl_seconds=45); return.
SigCacheSet ==
  /\ spc \in {"empty", "ranked"}
  /\ store' = EvictOverflow(StorePut(EvictExpired(store, now),
                 NewEntry(cache_key(req), result_dict, SignalsTtl, now)))
  /\ spc' = "returned"
  /\ UNCHANGED <<now, enabled, lock, key_locks_lock, key_locks, th>>
  /\ UNCHANGED <<pipeVarsButSpc, cohortVars, prev, hashVars, parseVars>>

\* The client sends the identical request again.
SigAgain ==
  /\ spc \in {"failed", "returned"}
  /\ calls = 1
  /\ calls' = 2
  /\ spc' = "start"
  /\ N' = 0 /\ queries' = <<>>
  /\ vax_marg' = <<>> /\ sym_marg' = <<>> /\ pair_docs' = <<>> /\ rows' = <<>>
  /\ UNCHANGED <<metrics, req, db, q, cpc, base_ids_set, cohort, prev_cohort,
                 cacheVars, prev, hashVars, parseVars>>

NextServe ==
  \/ SigLookup \/ SigEmpty \/ SigTabulate \/ SigStoreFails
  \/ SigRows \/ SigRank \/ SigCacheSet \/ SigAgain
\* One client of /api/signals, its request served and then repeated once.
SpecServe == ServeInit /\ [][NextServe]_vars

\* ================================================== claims: signals.compute
PairDocs == {pair_docs[i] : i \in 1..Len(pair_docs)}
RowSet == {rows[i] : i \in 1..Len(rows)}
HasRows == spc \in {"rows", "ranked"}

\* C11 (as claimed): every row produced from a cohort of size N has
\* a + b + c + d = N.
C11_CellsSumToN ==
  HasRows => \A r \in RowSet : r.a + r.b + r.c + r.d = N

\* C12 (as claimed): for every key _build_pairs emits, the joint count a is
\* at most the vaccine total and at most the symptom total that
\* _build_vax_marginals and _build_sym_marginals return for the same cohort.
C12_JointAtMostMarginals ==
  spc = "tabulated" =>
    \A doc \in PairDocs :
      /\ doc.a <= MargGet(vax_marg, <<OrEmpty(doc.id.vax_type), OrEmpty(doc.id.vax_manu)>>)
      /\ doc.a <= MargGet(sym_marg, doc.id.pt)

\* The totals the row loop looks up for a pair document.
VaxTotalOf(doc) ==
  MargGet(vax_marg, <<OrEmpty(doc.id.vax_type), OrEmpty(doc.id.vax_manu)>>)
SymTotalOf(doc) == MargGet(sym_marg, OrEmpty(doc.id.pt))
MeetsThresholds(doc) ==
  /\ doc.a >= req.min_count
  /\ VaxTotalOf(doc) >= req.min_vax_total
  /\ SymTotalOf(doc) >= req.min_sym_total
IsRowOf(r, doc) ==
  /\ r.vax_type = OrEmpty(doc.id.vax_type) /\ r.vax_manu = OrEmpty(doc.id.vax_manu)
  /\ r.symptom = OrEmpty(doc.id.pt)
  /\ r.a = doc.a /\ r.vax_total = VaxTotalOf(doc) /\ r.sym_total = SymTotalOf(doc)

\* C19: every row, before and after ranking, has a >= min_count,
\* vax_total >= min_vax_total and sym_total >= min_sym_total; and when the
\* row loop has ended, every pair document that meets the three thresholds
\* has its row in the list that is then sorted, one row per such document.
C19_Thresholds ==
  /\ HasRows =>
       \A r \in RowSet :
         /\ r.a >= req.min_count
         /\ r.vax_total >= req.min_vax_total
         /\ r.sym_total >= req.min_sym_total
  /\ spc = "rows" =>
       /\ \A doc \in PairDocs : MeetsThresholds(doc) => \E r \in RowSet : IsRowOf(r, doc)
       /\ Len(rows) = Cardinality({doc \in PairDocs : MeetsThresholds(doc)})

\* A ranked response with a row, from a tabulation one of whose pairs was
\* dropped by the symptom-total threshold alone.
C19_Witness ==
  /\ spc = "ranked" /\ rows # <<>>
  /\ \E doc \in PairDocs :
       /\ doc.a >= req.min_count /\ VaxTotalOf(doc) >= req.min_vax_total
       /\ SymTotalOf(doc) < req.min_sym_total

\* r1 ranks strictly before r2: by the selected key descending (a null
\* metric counting as 0), then by symptom term ascending.
RanksBefore(r1, r2) ==
  \/ FloatLt(sk(r2, req)[1], sk(r1, req)[1])
  \/ FloatEq(sk(r1, req)[1], sk(r2, req)[1]) /\ StrRank(r1.symptom) < StrRank(r2.symptom)

\* C20 (as claimed): the rows returned are min(limit, number of candidates)
\* of the threshold-passing rows, none ranks strictly before a row returned
\* ahead of it, and no omitted row ranks strictly before a returned row.
C20_RankedPrefix ==
  [][(spc = "rows" /\ spc' = "ranked") =>
       /\ Len(rows') = Min(req.limit, Len(rows))
       /\ \E f \in [1..Len(rows') -> 1..Len(rows)] :
            /\ \A i, j \in 1..Len(rows') : i # j => f[i] # f[j]
            /\ \A i \in 1..Len(rows') : rows'[i] = rows[f[i]]
       /\ \A i, j \in 1..Len(rows') : i < j => ~RanksBefore(rows'[j], rows'[i])
       /\ \A r \in RowSet :
            (\A i \in 1..Len(rows') : rows'[i] # r) =>
              \A i \in 1..Len(rows') : ~RanksBefore(r, rows'[i])]_vars

\* C21 (as claimed): the rows returned are the same whatever order
\* _build_pairs emitted the same pair documents in.
C21_OrderIndependent ==
  spc = "ranked" =>
    \A o \in Orders(PairDocs) :
      \A out \in RowLoop(o, vax_marg, sym_marg, req, N) :
        out.raised = "no" => Truncate(ListSort(out.rows, req), req.limit) = rows

\* ================================================= claims: signals() served
\* C22: a request one of whose store queries failed (in cohort resolution or
\* in a tabulation) returns nothing: it holds no count, no tabulation and no
\* row list, its only next step is the client's repeat, and the cache holds
\* no entry for its key, so the identical request sent again recomputes.
C22_FailureAborts ==
  /\ [](spc = "failed" =>
          /\ N = 0 /\ rows = <<>>
          /\ vax_marg = <<>> /\ sym_marg = <<>> /\ pair_docs = <<>>
          /\ StoreGet(store, cache_key(req)) = NoEntry)
  /\ [][spc = "failed" => spc' = "start" /\ store' = store]_vars
  /\ [][(spc = "start" /\ StoreGet(store, cache_key(req)) = NoEntry)
          => spc' = "call"]_vars
\* The repeat of a failed request is recomputing, and fails in a tabulation
\* after its cohort was resolved.
C22_Witness ==
  /\ spc = "failed" /\ calls = 2
  /\ Len(queries) > Len(GbiQueries(req))

\* C23: a request whose cohort came back empty has N = 0 and an empty row
\* list, has sent only the queries of _get_base_ids (no marginal, pair or
\* metric stage ran), and returns just that; a request past the tabulations
\* has a cohort that is not empty.
OnlyCohortQueries == \A i \in 1..Len(queries) : queries[i].by = "_get_base_ids"
C23_EmptyShortCircuit ==
  /\ [](spc = "empty" =>
          /\ N = 0 /\ rows = <<>> /\ OnlyCohortQueries
          /\ vax_marg = <<>> /\ sym_marg = <<>> /\ pair_docs = <<>>)
  /\ [][spc = "empty" =>
          /\ spc' = "returned" /\ N' = 0 /\ rows' = <<>>
          /\ queries' = queries /\ pair_docs' = <<>>]_vars
  /\ [](spc \in {"tabulated", "rows", "raised", "ranked"} => N > 0)
\* The empty payload was returned for a vaccine filter that no report in a
\* store of five reports satisfies.
C23_Witness ==
  /\ spc = "returned" /\ N = 0 /\ rows = <<>>
  /\ req.vax_type # NoStr
  /\ queries = GbiQueries(req)

\* ================================================ request parameter parsing
\* The raw text of a query-string parameter; NoStr when it is absent
\* (request.args.get(name) is None).
RawValues ==
  {NoStr, "", " ", "3", " 3 ", "2.5", "abc", "nan", "2021-01-05", "2021-02-30"}

\* str.strip() on these texts.
Strip(x) == IF x = " " THEN "" ELSE IF x = " 3 " THEN "3" ELSE x

\* What a parse gives: None, an int, a float (in tenths), the float nan, a
\* datetime (as yyyymmdd), or a ValueError raised.
PNone == [kind |-> "None", v |-> 0]
PRaise == [kind |-> "ValueError", v |-> 0]
PInt(n) == [kind |-> "int", v |-> n]
PFloat(tenths) == [kind |-> "float", v |-> tenths]
PNaN == [kind |-> "nan", v |-> 0]
PDate(n) == [kind |-> "datetime", v |-> n]

\* int(x) of a str: white space around the literal is ignored, and anything
\* but an integer literal raises ValueError.
PyInt(x) ==
  LET s == Strip(x)
  IN  IF s = "3" THEN PInt(3)
      ELSE IF s = "5" THEN PInt(5)
      ELSE IF s = "20" THEN PInt(20)
      ELSE IF s = "50" THEN PInt(50)
      ELSE PRaise

\* float(x) of a str.
PyFloat(x) ==
  LET s == Strip(x)
  IN  IF s = "3" THEN PFloat(30)
      ELSE IF s = "2.5" THEN PFloat(25)
      ELSE IF s = "0.5" THEN PFloat(5)
      ELSE IF s = "nan" THEN PNaN
      ELSE PRaise

\* datetime.strptime(x, "%Y-%m-%d"): a text of another shape, or a day the
\* calendar does not have, raises ValueError.
Strptime(x) == IF x = "2021-01-05" THEN PDate(20210105) ELSE PRaise

\* try: ... except ValueError: return None
OrNone(r) == IF r = PRaise THEN PNone ELSE r

\* filters.py lines 11-20
parse_int(x) ==
  IF x = NoStr THEN PNone
  ELSE IF Strip(x) = "" THEN PNone
  ELSE OrNone(PyInt(Strip(x)))

\* filters.py lines 23-32
parse_float(x) ==
  IF x = NoStr THEN PNone
  ELSE IF Strip(x) = "" THEN PNone
  ELSE OrNone(PyFloat(Strip(x)))

\* filters.py lines 35-48
parse_date_yyyy_mm_dd(x) ==
  IF x = NoStr THEN PNone
  ELSE IF Strip(x) = "" THEN PNone
  ELSE OrNone(Strptime(Strip(x)))

\* signals.py lines 305-319: request.args.get(name, "").strip(), then float()
\* inside try/except ValueError.
OnsetDays(x) ==
  LET raw == Strip(IF x = NoStr THEN "" ELSE x)
  IN  IF raw = "" THEN PNone ELSE OrNone(PyFloat(raw))

\* request.args.get(name, default) or fallback: the default text for an
\* absent parameter, the fallback number for an empty one.
GetOr(x, default) == IF x = NoStr THEN default ELSE x

\* max(lo, r) and min(hi, r) of a parsed int; a raised error goes on.
ClampLo(lo, r) == IF r = PRaise THEN r ELSE PInt(Max2(lo, r.v))
ClampHi(hi, r) == IF r = PRaise THEN r ELSE PInt(Min(hi, r.v))

\* signals.py lines 323-327: int(...) and float(...) stand outside any try.
SignalsParam(name, x) ==
  IF name = "min_count"
    THEN ClampLo(1, IF GetOr(x, "5") = "" THEN PInt(5) ELSE PyInt(GetOr(x, "5")))
  ELSE IF name \in {"min_vax_total", "min_sym_total"}
    THEN IF GetOr(x, "20") = "" THEN PInt(20) ELSE PyInt(GetOr(x, "20"))
  ELSE IF name = "limit"
    THEN ClampLo(10, ClampHi(200,
           IF GetOr(x, "50") = "" THEN PInt(50) ELSE PyInt(GetOr(x, "50"))))
  ELSE IF GetOr(x, "0.5") = "" THEN PFloat(5) ELSE PyFloat(GetOr(x, "0.5"))

IntFilters == {"year"}
FloatFilters == {"age_min", "age_max"}
DateFilters == {"onset_start", "onset_end"}
OnsetDayParams == {"onset_days_min", "onset_days_max"}
SignalsInts == {"min_count", "min_vax_total", "min_sym_total", "limit"}
SignalsFloats == {"cc"}
ParamNames ==
  IntFilters \cup FloatFilters \cup DateFilters \cup OnsetDayParams
    \cup SignalsInts \cup SignalsFloats

\* What the request handler makes of parameter `name` given as text x.
Parsed(name, x) ==
  IF name \in IntFilters THEN parse_int(x)
  ELSE IF name \in FloatFilters THEN parse_float(x)
  ELSE IF name \in DateFilters THEN parse_date_yyyy_mm_dd(x)
  ELSE IF name \in OnsetDayParams THEN OnsetDays(x)
  ELSE SignalsParam(name, x)

ParseInit ==
  /\ params \in [pc : {"raw"}, name : ParamNames, raw : RawValues, out : {PNone}]
  /\ CacheInit /\ SeqOff /\ HashOff /\ CohortOff /\ PipeOff

\* filters.py lines 92-104: from_request
FromRequest ==
  /\ params.pc = "raw"
  /\ params.name \in IntFilters \cup FloatFilters \cup DateFilters
  /\ params' = [params EXCEPT !.pc = "done", !.out = Parsed(params.name, params.raw)]
  /\ UNCHANGED <<cacheVars, prev, hashVars, cohortVars, pipeVars>>

\* signals.py lines 305-319
SignalsOnsetDays ==
  /\ params.pc = "raw"
  /\ params.name \in OnsetDayParams
  /\ params' = [params EXCEPT !.pc = "done", !.out = Parsed(params.name, params.raw)]
  /\ UNCHANGED <<cacheVars, prev, hashVars, cohortVars, pipeVars>>

\* signals.py lines 323-327
SignalsNumbers ==
  /\ params.pc = "raw"
  /\ params.name \in SignalsInts \cup SignalsFloats
  /\ params' = [params EXCEPT !.pc = "done", !.out = Parsed(params.name, params.raw)]
  /\ UNCHANGED <<cacheVars, prev, hashVars, cohortVars, pipeVars>>

NextParse == FromRequest \/ SignalsOnsetDays \/ SignalsNumbers
\* One parameter of one request, from its raw text to what the handler holds.
SpecParse == ParseInit /\ [][NextParse]_vars

\* ================================================ claims: parameter parsing
\* The text is given and is not a literal of the parameter's type.
Unparseable(name, x) ==
  /\ x # NoStr
  /\ IF name \in IntFilters \cup SignalsInts THEN PyInt(x) = PRaise
     ELSE IF name \in DateFilters THEN Strptime(Strip(x)) = PRaise
     ELSE PyFloat(x) = PRaise

\* C24 (as claimed): a parameter whose text does not parse is handled as the
\* absent parameter is, and no error is raised.
C24_UnparseableAsAbsent ==
  (params.pc = "done" /\ Unparseable(params.name, params.raw)) =>
    /\ params.out # PRaise
    /\ params.out = Parsed(params.name, NoStr)

\* ============================================ claims: the cohort, continued
\* C25 (as claimed): once a join constraint has left _get_base_ids with an
\* empty identifier set, the call sends no further query to the store and
\* returns the empty cohort.
C25_EmptyJoinShortCircuit ==
  [][(cpc \in {"sym", "final"} /\ base_ids_set = {}) =>
       /\ queries' = queries
       /\ (cpc' = "done" => cohort' = <<>>)]_vars

\* C26: with an onset-day bound, every report of the returned cohort
\* satisfies the report predicate and has a day difference inside the
\* bounds, a report without a day difference (a date missing or not
\* parseable) is never in it, and under a cap C > 0 the cohort has
\* min(number of reports in range, C) members: the cap cuts the filtered
\* reports, not the reports to be filtered.
HasOnsetBound(p) == p.onset_min # NoNum \/ p.onset_max # NoNum
DaysOf(r) == db.vaers_data[r].days
C26_OnsetBeforeCap ==
  (Returned /\ HasOnsetBound(q)) =>
    /\ \A r \in Range(cohort) :
         /\ db.vaers_data[r].dm
         /\ DaysOf(r) # NoNum
         /\ (q.onset_min # NoNum => DaysOf(r) >= q.onset_min)
         /\ (q.onset_max # NoNum => DaysOf(r) <= q.onset_max)
    /\ Cardinality(Range(cohort)) = Len(cohort)
    /\ Len(cohort) =
         IF q.cap > 0 THEN Min(Cardinality(Matching(db, q)), q.cap)
                      ELSE Cardinality(Matching(db, q))
\* A capped call with a lower bound returned the one report in range and
\* left out a report that satisfies the predicate but has no day difference.
C26_Witness ==
  /\ Returned /\ q.onset_min # NoNum /\ q.cap > 0
  /\ Len(cohort) = 1
  /\ \E r \in Reports :
       db.vaers_data[r].dm /\ DaysOf(r) = NoNum /\ r \notin Range(cohort)

\* ================================================ the cache: all operations
\* set() and get_or_set() called with one value and the default TTL: which
\* value and which TTL a call stores has no bearing on the locks it takes.
CallSetDefault(t) ==
  /\ At(t, "idle")
  /\ \E k \in Keys, v \in {MaxVal} :
       Goto(t, NewCall("set_enter", "set", k, v, NoTtl))
  /\ UNCHANGED <<now, enabled, store, lock, key_locks_lock, key_locks, nonCache>>

CallGetOrSetDefault(t) ==
  /\ At(t, "idle")
  /\ \E k \in Keys :
       Goto(t, [NewCall("gos_get1_enter", "get_or_set", k, None, NoTtl)
                  EXCEPT !.fresh = (k \notin StoreKeys(store))])
  /\ UNCHANGED <<now, enabled, store, lock, key_locks_lock, key_locks, nonCache>>

\* A thread calls one of the six operations.
Call(t) ==
  \/ CallGet(t) \/ CallSetDefault(t) \/ CallSize(t) \/ CallPrune(t) \/ CallClear(t)
  \/ CallGetOrSetDefault(t)

\* The next step of the call thread t is in, its return included.
Advance(t) ==
  \/ Get_Enter(t) \/ Get_Lookup(t)
  \/ Set_Enter(t) \/ Set_Insert(t) \/ Set_Overflow(t)
  \/ Gos_Get1Enter(t) \/ Gos_Get1Lookup(t)
  \/ Gos_KeyLockAcquire(t) \/ Gos_KeyLockBody(t) \/ Gos_Lock(t)
  \/ Gos_Get2Enter(t) \/ Gos_Get2Lookup(t)
  \/ Gos_Compute(t)
  \/ Gos_SetEnter(t) \/ Gos_SetInsert(t) \/ Gos_SetOverflow(t)
  \/ Return(t)

NextLive == \E t \in Threads : Call(t) \/ Advance(t)

\* Every thread is scheduled again and again, compute() terminates (it is
\* the one step Gos_Compute), and a lock that is released again and again
\* is eventually given to each thread waiting for it.
Fairness == \A t \in Threads : SF_vars(Advance(t))

\* Threads calling get, set, size, prune, clear and get_or_set on one cache,
\* within one reading of the clock.
SpecLive == Init /\ [][NextLive]_vars /\ Fairness

\* ===================================== claims: the cache, locks and progress
HoldsKeyLock(t) == \E k \in DOMAIN key_locks : key_locks[k] = t
\* Positions whose next step acquires a lock.
AcquiresIndexLock(t) ==
  th[t].pc \in {"get_enter", "set_enter", "gos_get1_enter", "gos_get2_enter",
                "gos_set_enter", "idle"}
AcquiresOtherLock(t) == th[t].pc \in {"gos_keylock_acquire", "gos_lock"}

\* A thread holding the index lock or the lock table's lock is not about
\* to acquire any lock, the holder of the lock table's lock holds no other
\* lock, and a thread holding a key's lock acquires at most the index lock.
LockOrder ==
  \A t \in Threads :
    /\ lock = t => ~AcquiresIndexLock(t) /\ ~AcquiresOtherLock(t)
    /\ key_locks_lock = t =>
         /\ ~AcquiresIndexLock(t) /\ ~AcquiresOtherLock(t)
         /\ lock # t /\ ~HoldsKeyLock(t)
    /\ HoldsKeyLock(t) => ~AcquiresOtherLock(t)

\* While a compute for a key is in flight its thread owns the key's lock,
\* so a caller waiting for that lock cannot take it.
WaiterBlocked ==
  \A t, u \in Threads :
    (t # u /\ At(t, "gos_compute") /\ At(u, "gos_lock") /\ th[t].key = th[u].key)
      => key_locks[th[u].key] = t

\* A waiter leaves its wait only by taking the free lock (there is no
\* timeout).
WaitEndsByAcquire(u) ==
  (At(u, "gos_lock") /\ th'[u] # th[u]) =>
    /\ key_locks[th[u].key] = NoThread
    /\ key_locks'[th[u].key] = u
    /\ th'[u].pc = "gos_get2_enter"

ComputeRaises(t) == At(t, "gos_compute") /\ th'[t].pc = "exc"
\* Thread u is in get_or_set for the key whose compute raised in thread t,
\* and t has not yet returned to its caller.
BehindRaise(t, u) ==
  /\ t # u /\ At(t, "exc")
  /\ th[u].op = "get_or_set" /\ th[u].key = th[t].key

\* C28: the step in which a compute raises releases the key's lock, leaves
\* the store and every other thread as they were; only a thread whose own
\* compute raised holds an exception, and it holds no key lock; a caller
\* that takes the key's lock behind the raise gets None from its second
\* lookup and goes on to execute compute itself.
C28_RaiseNotShared ==
  /\ [][\A t \in Threads :
          ComputeRaises(t) =>
            /\ key_locks'[th[t].key] = NoThread
            /\ store' = store
            /\ \A u \in Threads \ {t} : th'[u] = th[u]]_vars
  /\ [](\A t \in Threads :
          At(t, "exc") => th[t].raised /\ th[t].computed /\ ~HoldsKeyLock(t))
  /\ [](\A t, u \in Threads :
          (BehindRaise(t, u) /\ th[u].pc \in {"gos_get2_enter", "gos_get2_lookup"})
            => GetResult(EvictExpired(store, now), th[u].key, now).ret = None)
  /\ [][\A t, u \in Threads :
          (BehindRaise(t, u) /\ At(u, "gos_get2_lookup") /\ th'[u] # th[u])
            => th'[u].pc = "gos_compute"]_vars
\* A compute has raised in one thread and the other caller of the same key,
\* which called before the raise was delivered, is executing compute.
C28_Witness ==
  \E t, u \in Threads :
    /\ BehindRaise(t, u) /\ At(u, "gos_compute")
    /\ th[u].fresh /\ th[t].fresh

\* C29 (as claimed): when set(k, v, ttl) with ttl > 0 and v not None returns
\* on an enabled cache, a get(k) made at once, before the new entry's
\* expiry, returns v.
SetReturns(t) == At(t, "set_overflow") /\ th'[t].pc = "ret"
C29_ReadYourWrites ==
  [][\A t \in Threads :
       (/\ SetReturns(t)
        /\ th[t].val # None /\ Ttl(th[t].ttl) > 0
        /\ now < StoreGet(store, th[t].key).expires_at)
       => GetResult(EvictExpired(store', now), th[t].key, now).ret = th[t].val]_vars

\* The store holds a live entry for key k whose value is None.
HoldsNone(k) ==
  LET ent == StoreGet(EvictExpired(store, now), k)
  IN  ent # NoEntry /\ ent.value = None

=============================================================================
